---------------------------- MODULE Spec2Model ----------------------------
(***************************************************************************)
(* Window tracking core of vibetunnel (tauri/src-tauri/src):               *)
(*   window_matcher.rs    WindowMatcher (strategy chain + match cache)     *)
(*   window_tracker.rs    WindowTracker (authoritative session map,        *)
(*                        registration retries, focus, reconciliation)     *)
(*   window_enumerator.rs WindowEnumerator (snapshots, title/id helpers)   *)
(*   process_tracker.rs   ProcessTracker (parent lookup)                   *)
(*                                                                         *)
(* Rust values are represented as follows.                                 *)
(*   Option<T>   None is <<>>, Some(x) is <<x>>                            *)
(*   String      a tuple of one-character strings ("" is <<>>)             *)
(*   Vec / slice a sequence                                                *)
(*   HashMap     a function from the (bounded) key universe to Option<V>   *)
(***************************************************************************)
EXTENDS Integers, Sequences, FiniteSets, TLC

(***************************************************************************)
(* Option and string helpers                                               *)
(***************************************************************************)
None == <<>>
Some(x) == <<x>>
IsSome(o) == o # <<>>
Unwrap(o) == o[1]

Min(S) == CHOOSE x \in S : \A y \in S : x <= y

\* str::contains(needle): substring test; every string contains "".
StrContains(hay, needle) ==
    \E i \in 0..(Len(hay) - Len(needle)) :
        SubSeq(hay, i + 1, i + Len(needle)) = needle

\* str::find(needle): byte offset (0-based) of the first occurrence.
StrFind(hay, needle) ==
    LET hits == {i \in 0..(Len(hay) - Len(needle)) :
                    SubSeq(hay, i + 1, i + Len(needle)) = needle}
    IN  IF hits = {} THEN None ELSE Some(Min(hits))

Elements(seq) == {seq[i] : i \in 1..Len(seq)}

\* slice.iter().find(pred): the first element satisfying pred, a predicate
\* given as a Boolean function on the elements.
FindFirst(seq, pred) ==
    LET hits == {i \in 1..Len(seq) : pred[seq[i]]}
    IN  IF hits = {} THEN None ELSE Some(seq[Min(hits)])

Digits == {"0", "1", "2", "3", "4", "5", "6", "7", "8", "9"}
DigitVal(c) ==
    CASE c = "0" -> 0 [] c = "1" -> 1 [] c = "2" -> 2 [] c = "3" -> 3
      [] c = "4" -> 4 [] c = "5" -> 5 [] c = "6" -> 6 [] c = "7" -> 7
      [] c = "8" -> 8 [] c = "9" -> 9

\* The number a string of ASCII digits writes.
RECURSIVE ParseDigits(_, _)
ParseDigits(str, acc) ==
    IF str = <<>> THEN acc
    ELSE ParseDigits(Tail(str), acc * 10 + DigitVal(Head(str)))

\* u64::MAX = 18446744073709551615, as its decimal digits.
U64MaxDigits == <<"1", "8", "4", "4", "6", "7", "4", "4", "0", "7", "3", "7", "0", "9", "5", "5", "1", "6", "1", "5">>

StripZeros(str) ==
    LET nz == {i \in 1..Len(str) : str[i] # "0"}
    IN  IF nz = {} THEN <<>> ELSE SubSeq(str, Min(nz), Len(str))

\* a > b for two digit strings of one length.
DigitsGreater(a, b) ==
    \E i \in 1..Len(a) :
        /\ DigitVal(a[i]) > DigitVal(b[i])
        /\ \A j \in 1..(i - 1) : a[j] = b[j]

\* str::parse::<u64>() on a string without a sign: Err on "", on a character
\* that is not an ASCII digit, and on a number above u64::MAX.
ParseU64(str) ==
    IF str = <<>> \/ \E i \in 1..Len(str) : str[i] \notin Digits THEN None
    ELSE LET s == StripZeros(str)
         IN  IF Len(s) > 20 \/ (Len(s) = 20 /\ DigitsGreater(s, U64MaxDigits))
             THEN None
             ELSE Some(ParseDigits(str, 0))

(***************************************************************************)
(* window_enumerator.rs                                                    *)
(***************************************************************************)
WindowIdPrefix == <<"w", "i", "n", "d", "o", "w", " ", "i", "d", " ">>

\* char::is_numeric: the Unicode categories Nd, Nl and No.  Of the
\* characters outside ASCII the model has one, "sup2", the superscript two
\* U+00B2 (category No).
NonAsciiNumeric == {"sup2"}
IsNumeric(c) == c \in Digits \cup NonAsciiNumeric

\* WindowEnumerator::extract_window_id (245-257)
extract_window_id(tab_reference) ==
    LET pos == StrFind(tab_reference, WindowIdPrefix)
    IN  IF ~IsSome(pos) THEN None
        ELSE LET id_str  == SubSeq(tab_reference, Unwrap(pos) + 10 + 1,
                                   Len(tab_reference))
                 nonnum  == {i \in 1..Len(id_str) : ~IsNumeric(id_str[i])}
             IN  IF nonnum # {}
                 THEN ParseU64(SubSeq(id_str, 1, Min(nonnum) - 1))
                 ELSE ParseU64(id_str)

\* WindowEnumerator::window_title_contains
window_title_contains(window, identifier) ==
    IF IsSome(window.title)
    THEN StrContains(Unwrap(window.title), identifier)
    ELSE FALSE

(***************************************************************************)
(* std::path::Path::file_name(): the final Normal component of the path,   *)
(* None when there is none or when the path ends in "..".                  *)
(***************************************************************************)
RECURSIVE SplitPath(_, _, _)
SplitPath(str, cur, acc) ==
    IF str = <<>> THEN Append(acc, cur)
    ELSE IF Head(str) = "/" THEN SplitPath(Tail(str), <<>>, Append(acc, cur))
    ELSE SplitPath(Tail(str), Append(cur, Head(str)), acc)

PathFileName(path) ==
    LET comps == SelectSeq(SplitPath(path, <<>>, <<>>),
                           LAMBDA c : c # <<>> /\ c # <<".">>)
    IN  IF comps = <<>> THEN None
        ELSE IF comps[Len(comps)] = <<".", ".">> THEN None
        ELSE Some(comps[Len(comps)])

\* Path::new(working_dir).file_name().and_then(|n| n.to_str()).unwrap_or("")
DirName(working_dir) ==
    LET n == PathFileName(working_dir)
    IN  IF IsSome(n) THEN Unwrap(n) ELSE <<>>

(***************************************************************************)
(* process_tracker.rs: the process table is the environment; a table is a  *)
(* function from some pids to their parent pid, a lookup outside it fails. *)
(***************************************************************************)
\* ProcessTracker::get_parent_process_id
get_parent_process_id(tree, pid) ==
    IF pid \in DOMAIN tree THEN Some(tree[pid]) ELSE None

\* ProcessTracker::get_process_info: pid, parent pid and name of a process
\* the system knows (the name falls back to "Process <pid>" when it cannot
\* be read; no such name is a terminal's).
get_process_info(tree, names, pid) ==
    IF pid \in DOMAIN tree
    THEN Some([pid |-> pid, ppid |-> tree[pid], name |-> names[pid]])
    ELSE None

\* process_tracker.rs 82-86: the allow-list of terminal process names.
terminal_processes ==
    << <<"T", "e", "r", "m", "i", "n", "a", "l">>,
       <<"i", "T", "e", "r", "m", "2">>,
       <<"a", "l", "a", "c", "r", "i", "t", "t", "y">>,
       <<"k", "i", "t", "t", "y">>,
       <<"w", "e", "z", "t", "e", "r", "m">>,
       <<"g", "n", "o", "m", "e", "-", "t", "e", "r", "m", "i", "n", "a", "l">>,
       <<"k", "o", "n", "s", "o", "l", "e">>,
       <<"x", "t", "e", "r", "m">>,
       <<"c", "m", "d", ".", "e", "x", "e">>,
       <<"p", "o", "w", "e", "r", "s", "h", "e", "l", "l", ".", "e", "x", "e">>,
       <<"W", "i", "n", "d", "o", "w", "s", "T", "e", "r", "m", "i", "n", "a", "l",
         ".", "e", "x", "e">> >>

\* 88: terminal_processes.iter().any(|&tp| info.name.contains(tp))
IsTerminalName(name) ==
    \E i \in 1..Len(terminal_processes) : StrContains(name, terminal_processes[i])

\* process_tracker.rs 76-101: the while loop of find_terminal_ancestor; with
\* the result, the number of parent lookups made (history).
RECURSIVE FtaLoop(_, _, _, _, _)
FtaLoop(tree, names, current_pid, depth, max_depth) ==
    IF depth < max_depth
    THEN LET parent == get_parent_process_id(tree, current_pid)
         IN  IF IsSome(parent)
             THEN LET info == get_process_info(tree, names, Unwrap(parent))
                  IN  IF IsSome(info) /\ IsTerminalName(Unwrap(info).name)
                      THEN [result |-> parent, lookups |-> depth + 1]
                      ELSE FtaLoop(tree, names, Unwrap(parent), depth + 1, max_depth)
             ELSE [result |-> None, lookups |-> depth + 1]
    ELSE [result |-> None, lookups |-> depth]

\* A walk that makes one step more than max_depth.
find_terminal_ancestor_Inclusive(tree, names, pid, max_depth) ==
    FtaLoop(tree, names, pid, 0, max_depth + 1)

\* ProcessTracker::find_terminal_ancestor
find_terminal_ancestor(tree, names, pid, max_depth) ==
    FtaLoop(tree, names, pid, 0, max_depth)

(***************************************************************************)
(* window_matcher.rs                                                       *)
(*                                                                         *)
(* A window (window_enumerator::WindowInfo) is a record                    *)
(*   [window_id, owner_pid, terminal_app, title, tab_reference, tab_id]    *)
(* (created_at and bounds are carried along and never read by the matcher  *)
(* or the tracker's bookkeeping; they are left out).                       *)
(* A SessionInfo is [id, pid, working_dir, name, activity_status].         *)
(* Both entry points take &mut self: they return the matched window and    *)
(* the session_window_cache as they leave it.                              *)
(***************************************************************************)
MatchResult(window, cache) == [window |-> window, cache |-> cache]

\* A successful strategy that returns its window without recording it.
CacheAndReturn_NoInsert(cache, session_id, window) ==
    MatchResult(Some(window), cache)

\* self.session_window_cache.insert(session_id, window.window_id); Some(window)
CacheAndReturn(cache, session_id, window) ==
    MatchResult(Some(window), [cache EXCEPT ![session_id] = Some(window.window_id)])

\* A cache hit that trusts the hint: the window last seen with the cached id
\* is returned without looking for the id in the slice of this call.
CachedWindow_Trusted(cache, session_id, windows) ==
    IF IsSome(cache[session_id])
    THEN Some([window_id |-> Unwrap(cache[session_id]), owner_pid |-> 0,
               terminal_app |-> "Terminal", title |-> None,
               tab_reference |-> None, tab_id |-> None])
    ELSE None

\* window_matcher.rs 40-45 / 165-170: the cached id looked up in the slice
\* handed to this call.
CachedWindow(cache, session_id, windows) ==
    IF IsSome(cache[session_id])
    THEN FindFirst(windows, [w \in Elements(windows) |-> w.window_id = Unwrap(cache[session_id])])
    ELSE None

\* window_matcher.rs 75-94: the while loop over grandparent and higher
\* ancestors (current_pid starts at the parent, depth at 0).
RECURSIVE FwAncestorLoop(_, _, _, _)
FwAncestorLoop(tree, filtered_windows, current_pid, depth) ==
    IF depth < 10
    THEN LET grandparent == get_parent_process_id(tree, current_pid)
         IN  IF IsSome(grandparent)
             THEN LET m == FindFirst(filtered_windows,
                               [w \in Elements(filtered_windows) |-> w.owner_pid = Unwrap(grandparent)])
                  IN  IF IsSome(m) THEN m
                      ELSE FwAncestorLoop(tree, filtered_windows,
                                          Unwrap(grandparent), depth + 1)
             ELSE None
    ELSE None

\* A traversal that forgets to look at the parent itself.
FwByProcess_SkipParent(tree, session_info, filtered_windows) ==
    IF IsSome(session_info) /\ IsSome(Unwrap(session_info).pid)
    THEN LET parent == get_parent_process_id(tree, Unwrap(Unwrap(session_info).pid))
         IN  IF IsSome(parent)
             THEN FwAncestorLoop(tree, filtered_windows, Unwrap(parent), 0)
             ELSE None
    ELSE None

\* A traversal whose loop counter starts one too low and so climbs one
\* ancestor further.
FwByProcess_OneDeeper(tree, session_info, filtered_windows) ==
    IF IsSome(session_info) /\ IsSome(Unwrap(session_info).pid)
    THEN LET parent == get_parent_process_id(tree, Unwrap(Unwrap(session_info).pid))
         IN  IF IsSome(parent)
             THEN LET m == FindFirst(filtered_windows,
                               [w \in Elements(filtered_windows) |-> w.owner_pid = Unwrap(parent)])
                  IN  IF IsSome(m) THEN m
                      ELSE FwAncestorLoop(tree, filtered_windows, Unwrap(parent), 0 - 1)
             ELSE None
    ELSE None

\* window_matcher.rs 53-97: process PID traversal of find_window.
FwByProcess(tree, session_info, filtered_windows) ==
    IF IsSome(session_info) /\ IsSome(Unwrap(session_info).pid)
    THEN LET parent == get_parent_process_id(tree, Unwrap(Unwrap(session_info).pid))
         IN  IF IsSome(parent)
             THEN LET m == FindFirst(filtered_windows,
                               [w \in Elements(filtered_windows) |-> w.owner_pid = Unwrap(parent)])
                  IN  IF IsSome(m) THEN m
                      ELSE FwAncestorLoop(tree, filtered_windows, Unwrap(parent), 0)
             ELSE None
    ELSE None

\* A title match that looks for the full path only.
FwByDirectory_FullPathOnly(session_info, filtered_windows) ==
    IF IsSome(session_info)
    THEN LET working_dir == Unwrap(session_info).working_dir
         IN  FindFirst(filtered_windows,
                 [w \in Elements(filtered_windows) |->
                     window_title_contains(w, working_dir)])
    ELSE None

\* window_matcher.rs 99-116: title containing the directory name or the path.
FwByDirectory(session_info, filtered_windows) ==
    IF IsSome(session_info)
    THEN LET working_dir == Unwrap(session_info).working_dir
             dir_name    == DirName(working_dir)
         IN  FindFirst(filtered_windows,
                 [w \in Elements(filtered_windows) |-> window_title_contains(w, dir_name)
                            \/ window_title_contains(w, working_dir)])
    ELSE None

\* A matcher that makes no use of the tab reference.
FwByTabReference_Ignored(terminal_app, tab_reference, filtered_windows) ==
    None

\* window_matcher.rs 118-131: Terminal.app with a tab reference.
FwByTabReference(terminal_app, tab_reference, filtered_windows) ==
    IF terminal_app = "Terminal" /\ IsSome(tab_reference)
    THEN LET window_id == extract_window_id(Unwrap(tab_reference))
         IN  IF IsSome(window_id)
             THEN FindFirst(filtered_windows,
                      [w \in Elements(filtered_windows) |-> w.window_id = Unwrap(window_id)])
             ELSE None
    ELSE None

\* window_matcher.rs 133-145: iTerm2 with a tab id.
FwByTabId(terminal_app, tab_id, filtered_windows) ==
    IF terminal_app = "iTerm2" /\ IsSome(tab_id)
    THEN FindFirst(filtered_windows,
             [w \in Elements(filtered_windows) |-> window_title_contains(w, Unwrap(tab_id))])
    ELSE None

\* A fallback that takes the first filtered window, whatever its id.
FwLatest_First(filtered_windows) ==
    IF filtered_windows = <<>> THEN None ELSE Some(filtered_windows[1])

\* window_matcher.rs 147-152: Iterator::max_by_key(|w| w.window_id), which
\* returns the last of several maximal elements.
FwLatest(filtered_windows) ==
    IF filtered_windows = <<>> THEN None
    ELSE LET top == {i \in 1..Len(filtered_windows) :
                        \A j \in 1..Len(filtered_windows) :
                            filtered_windows[j].window_id
                                <= filtered_windows[i].window_id}
         IN  Some(filtered_windows[CHOOSE i \in top : \A j \in top : j <= i])

\* A chain that tries the explicit tab reference before the ancestry and the
\* working directory.
MatcherFindWindow_RefFirst(cache, tree, terminal_app, session_id, session_info, tab_reference, tab_id, terminal_windows) ==
    LET cached   == CachedWindow(cache, session_id, terminal_windows)
        filtered == SelectSeq(terminal_windows,
                              LAMBDA w : w.terminal_app = terminal_app)
        byProc   == FwByProcess(tree, session_info, filtered)
        byDir    == FwByDirectory(session_info, filtered)
        byRef    == FwByTabReference(terminal_app, tab_reference, filtered)
        byTabId  == FwByTabId(terminal_app, tab_id, filtered)
        latest   == FwLatest(filtered)
    IN  IF IsSome(cached) THEN MatchResult(cached, cache)
        ELSE IF IsSome(byRef)   THEN CacheAndReturn(cache, session_id, Unwrap(byRef))
        ELSE IF IsSome(byProc)  THEN CacheAndReturn(cache, session_id, Unwrap(byProc))
        ELSE IF IsSome(byDir)   THEN CacheAndReturn(cache, session_id, Unwrap(byDir))
        ELSE IF IsSome(byTabId) THEN CacheAndReturn(cache, session_id, Unwrap(byTabId))
        ELSE IF IsSome(latest)  THEN CacheAndReturn(cache, session_id, Unwrap(latest))
        ELSE MatchResult(None, cache)

\* WindowMatcher::find_window
MatcherFindWindow(cache, tree, terminal_app, session_id, session_info, tab_reference, tab_id, terminal_windows) ==
    LET cached   == CachedWindow(cache, session_id, terminal_windows)
        filtered == SelectSeq(terminal_windows,
                              LAMBDA w : w.terminal_app = terminal_app)
        byProc   == FwByProcess(tree, session_info, filtered)
        byDir    == FwByDirectory(session_info, filtered)
        byRef    == FwByTabReference(terminal_app, tab_reference, filtered)
        byTabId  == FwByTabId(terminal_app, tab_id, filtered)
        latest   == FwLatest(filtered)
    IN  IF IsSome(cached) THEN MatchResult(cached, cache)
        ELSE IF IsSome(byProc)  THEN CacheAndReturn(cache, session_id, Unwrap(byProc))
        ELSE IF IsSome(byDir)   THEN CacheAndReturn(cache, session_id, Unwrap(byDir))
        ELSE IF IsSome(byRef)   THEN CacheAndReturn(cache, session_id, Unwrap(byRef))
        ELSE IF IsSome(byTabId) THEN CacheAndReturn(cache, session_id, Unwrap(byTabId))
        ELSE IF IsSome(latest)  THEN CacheAndReturn(cache, session_id, Unwrap(latest))
        ELSE MatchResult(None, cache)

\* window_matcher.rs 180-205: the walk of find_window_for_session, which tests
\* current_pid itself before moving to its parent and stops at a root parent.
RECURSIVE FfsProcessLoop(_, _, _, _)
FfsProcessLoop(tree, all_windows, current_pid, depth) ==
    IF depth < 20
    THEN LET m == FindFirst(all_windows, [w \in Elements(all_windows) |-> w.owner_pid = current_pid])
             parent == get_parent_process_id(tree, current_pid)
         IN  IF IsSome(m) THEN m
             ELSE IF IsSome(parent) /\ Unwrap(parent) # 0 /\ Unwrap(parent) # 1
             THEN FfsProcessLoop(tree, all_windows, Unwrap(parent), depth + 1)
             ELSE None
    ELSE None

\* window_matcher.rs 172-208
FfsByProcess(tree, session_info, all_windows) ==
    IF IsSome(session_info.pid)
    THEN FfsProcessLoop(tree, all_windows, Unwrap(session_info.pid), 0)
    ELSE None

\* window_matcher.rs 210-234
FfsByDirectory(session_info, all_windows) ==
    LET working_dir == session_info.working_dir
        dir_name    == DirName(working_dir)
    IN  FindFirst(all_windows,
            [w \in Elements(all_windows) |-> IF IsSome(w.title)
                       THEN StrContains(Unwrap(w.title), dir_name)
                            \/ StrContains(Unwrap(w.title), working_dir)
                       ELSE FALSE])

\* window_matcher.rs 236-253
FfsByActivity(session_info, all_windows) ==
    IF IsSome(session_info.activity_status)
       /\ Unwrap(session_info.activity_status) # <<>>
    THEN FindFirst(all_windows,
             [w \in Elements(all_windows) |-> IF IsSome(w.title)
                        THEN StrContains(Unwrap(w.title),
                                         Unwrap(session_info.activity_status))
                        ELSE FALSE])
    ELSE None

\* A lookup that tries the working directory before the process walk.
MatcherFindWindowForSession_DirFirst(cache, tree, session_id, session_info, all_windows) ==
    LET cached == CachedWindow(cache, session_id, all_windows)
        byProc == FfsByProcess(tree, session_info, all_windows)
        byDir  == FfsByDirectory(session_info, all_windows)
        byAct  == FfsByActivity(session_info, all_windows)
    IN  IF IsSome(cached) THEN MatchResult(cached, cache)
        ELSE IF IsSome(byDir)  THEN CacheAndReturn(cache, session_id, Unwrap(byDir))
        ELSE IF IsSome(byProc) THEN CacheAndReturn(cache, session_id, Unwrap(byProc))
        ELSE IF IsSome(byAct)  THEN CacheAndReturn(cache, session_id, Unwrap(byAct))
        ELSE MatchResult(None, cache)

\* A lookup that drops the session's hint when every strategy failed.
MatcherFindWindowForSession_Evict(cache, tree, session_id, session_info, all_windows) ==
    LET cached == CachedWindow(cache, session_id, all_windows)
        byProc == FfsByProcess(tree, session_info, all_windows)
        byDir  == FfsByDirectory(session_info, all_windows)
        byAct  == FfsByActivity(session_info, all_windows)
    IN  IF IsSome(cached) THEN MatchResult(cached, cache)
        ELSE IF IsSome(byProc) THEN CacheAndReturn(cache, session_id, Unwrap(byProc))
        ELSE IF IsSome(byDir)  THEN CacheAndReturn(cache, session_id, Unwrap(byDir))
        ELSE IF IsSome(byAct)  THEN CacheAndReturn(cache, session_id, Unwrap(byAct))
        ELSE MatchResult(None, [cache EXCEPT ![session_id] = None])

\* WindowMatcher::find_window_for_session
MatcherFindWindowForSession(cache, tree, session_id, session_info, all_windows) ==
    LET cached == CachedWindow(cache, session_id, all_windows)
        byProc == FfsByProcess(tree, session_info, all_windows)
        byDir  == FfsByDirectory(session_info, all_windows)
        byAct  == FfsByActivity(session_info, all_windows)
    IN  IF IsSome(cached) THEN MatchResult(cached, cache)
        ELSE IF IsSome(byProc) THEN CacheAndReturn(cache, session_id, Unwrap(byProc))
        ELSE IF IsSome(byDir)  THEN CacheAndReturn(cache, session_id, Unwrap(byDir))
        ELSE IF IsSome(byAct)  THEN CacheAndReturn(cache, session_id, Unwrap(byAct))
        ELSE MatchResult(None, cache)

\* A clear_session_cache that forgets every session.
MatcherClearSessionCache_All(cache, session_id) == [s \in DOMAIN cache |-> None]

\* WindowMatcher::clear_session_cache
MatcherClearSessionCache(cache, session_id) == [cache EXCEPT ![session_id] = None]

\* WindowMatcher::clear_all_cache
MatcherClearAllCache(cache) == [s \in DOMAIN cache |-> None]

(***************************************************************************)
(* Bounded universe                                                        *)
(***************************************************************************)
\* Longest snapshot an enumeration returns.
MaxWindows == 2

Sessions == {"a", "b"}
TerminalApps == {"Terminal", "iTerm2", "kitty"}

Window(id, pid, app, title) ==
    [window_id |-> id, owner_pid |-> pid, terminal_app |-> app, title |-> title,
     tab_reference |-> None, tab_id |-> None]

\* Two Terminal windows (one untitled), an iTerm2 window, and an iTerm2
\* window carrying the id of a Terminal window (window ids are unique within
\* one snapshot at best; the macOS fallback uses pids as window ids).
WindowUniverse ==
    { Window(1, 11, "Terminal", None),
      Window(2, 12, "Terminal", Some(<<"b", "7">>)),
      Window(3, 13, "iTerm2",   Some(<<"7">>)),
      Window(2, 14, "iTerm2",   Some(<<"z">>)) }

RECURSIVE SeqsUpTo(_, _)
SeqsUpTo(S, n) ==
    IF n = 0 THEN {<<>>}
    ELSE LET shorter == SeqsUpTo(S, n - 1)
         IN  shorter \cup {Append(q, x) : q \in shorter, x \in S}

NoRepeat(q) == \A i, j \in 1..Len(q) : i # j => q[i] # q[j]

\* What WindowEnumerator::get_all_terminal_windows may return.
Snapshots == {q \in SeqsUpTo(WindowUniverse, MaxWindows) : NoRepeat(q)}

\* "tab id 1 of window id 2"
TabRef2 ==
    <<"t", "a", "b", " ", "i", "d", " ", "1", " ", "o", "f", " ",
      "w", "i", "n", "d", "o", "w", " ", "i", "d", " ", "2">>
TabReferences == {None, Some(TabRef2)}
\* "tab id 1 of window id 1"
TabRef1 == [TabRef2 EXCEPT ![Len(TabRef2)] = "1"]
\* The tab references the tracker's callers pass.
CallerTabReferences == TabReferences \cup {Some(TabRef1)}
TabIds == {None, Some(<<"7">>)}

\* Process table: session process 21, its shell 20, the terminal process 12
\* owning a window, and the root above it; and a long chain 39 -> 40 -> ...
\* -> 58 -> 13 in which the window owner 13 is the 19th ancestor of 40 and the
\* 20th of 39.
ProcessTable ==
    (21 :> 20) @@ (20 :> 12) @@ (12 :> 1) @@ [p \in 39..57 |-> p + 1] @@ (58 :> 13)

SessionInfoRec(id, pid, dir, activity) ==
    [id |-> id, pid |-> pid, working_dir |-> dir, name |-> None,
     activity_status |-> activity]

\* window_tracker.rs 206-212: the minimal session info of the tracker's probe.
MinimalSessionInfo(session_id) == SessionInfoRec(session_id, None, <<>>, None)

WorkDir == <<"/", "a", "/", "b">>
\* A working directory no window title mentions.
OtherDir == <<"/", "q">>

EmptyCache == [s \in Sessions |-> None]

(***************************************************************************)
(* State                                                                   *)
(***************************************************************************)
Tasks == {"t1", "t2"}

VARIABLES
    session_window_cache,   \* WindowMatcher.session_window_cache
    m_args,                 \* arguments of the direct matcher call being made
    m_ret,                  \* what the last direct matcher call returned
    session_window_map,     \* WindowTracker.session_window_map (the HashMap)
    map_writer,             \* task holding session_window_map's write guard
    map_readers,            \* tasks holding a read guard of session_window_map
    matcher_writer,         \* task holding window_matcher's write guard
    pc,                     \* per task: where it is in its tracker call
    call,                   \* per task: the tracker call it makes (made last)
    local,                  \* per task: local variables of the call
    hist                    \* per task: history of the call (not program state)

\* The other components of the application, each with the part of its
\* environment that its calls act on.
VARIABLES
    git_monitor,            \* GitMonitor: its caches and their locks
    power_manager,          \* PowerManager, and the assertions the OS holds
    log_collector           \* LogCollector: buffer and max_size

app_vars == <<git_monitor, power_manager, log_collector>>

matcher_vars == <<session_window_cache, m_args, m_ret>>
tracker_vars == <<session_window_map, map_writer, map_readers, matcher_writer,
                  pc, call, local, hist>>
vars == <<session_window_cache, m_args, m_ret, session_window_map, map_writer,
          map_readers, matcher_writer, pc, call, local, hist, git_monitor,
          power_manager, log_collector>>

EmptyMap == [s \in Sessions |-> None]
NoCall == [op |-> "none"]
NoLocal == [explicit |-> FALSE, index |-> 0, terminal_windows |-> <<>>,
            window_info |-> None]
\* History of one tracker call: the time slept so far (ms), the enumerations
\* made (offset and session), what each match returned, the entries inserted,
\* the platform activation calls dispatched, the value returned, the map as
\* it was when the call was made, whether the task's previous call was this
\* same focus_window / unregister_window call, for a focus_window that
\* repeats one that failed, the activation calls of that one, what the
\* other tasks did while the call was under way (see Observe), and the cache
\* entry the session had when the last match was made.
NoHist == [elapsed |-> 0, attempts |-> <<>>, outcomes |-> <<>>, inserts |-> <<>>,
           activations |-> <<>>, returned |-> FALSE, result |-> None,
           map_at_call |-> EmptyMap, again |-> FALSE, prev_activations |-> <<>>,
           seen |-> {}, hint |-> None]

\* A reader/writer lock of tokio::sync: the tasks holding a read guard, the
\* task holding the write guard, and the tasks waiting, first come first.
FreeLock == [readers |-> {}, writer |-> None, queue |-> <<>>]

GitFiles == {"f1", "f2"}
GitRepos == {"r"}

\* GitMonitor::new (24-31)
GitMonitorNew ==
    [repository_cache |-> [r \in GitRepos |-> None],
     file_to_repo_cache |-> [f \in GitFiles |-> None],
     repository_lock |-> FreeLock,
     file_to_repo_lock |-> FreeLock,
     github_url_lock |-> FreeLock]

\* PowerManager::new (20-28); no assertion has been created.
PowerManagerNew ==
    [is_prevented |-> FALSE, assertion_id |-> None, guard |-> None,
     outstanding |-> {}, created |-> 0]

\* LogCollector::new (21-27); added is the history of the entries pushed
\* since the last clear, now the clock that stamps the entries.
LogCollectorNew(max_size) ==
    [buffer |-> <<>>, max_size |-> max_size, added |-> <<>>, now |-> 0]

\* log_collector.rs 65: the global collector
ServerLogMaxSize == 1000

\* The other components as they are constructed.
AppNew ==
    /\ git_monitor = GitMonitorNew
    /\ power_manager = PowerManagerNew
    /\ log_collector = LogCollectorNew(ServerLogMaxSize)

\* WindowTracker::new
TrackerInit ==
    /\ session_window_cache = EmptyCache
    /\ session_window_map = EmptyMap
    /\ map_writer = None
    /\ map_readers = {}
    /\ matcher_writer = None
    /\ pc = [t \in Tasks |-> "idle"]
    /\ call = [t \in Tasks |-> NoCall]
    /\ local = [t \in Tasks |-> NoLocal]
    /\ hist = [t \in Tasks |-> NoHist]

(***************************************************************************)
(* Direct calls of the matcher's public functions (MatcherSpec)            *)
(***************************************************************************)
MatcherArgs ==
    [terminal_app : TerminalApps, session_id : Sessions,
     info : {0, 1, 2, 3}, tab_reference : TabReferences, tab_id : TabIds,
     windows : Snapshots]

\* The Option<&SessionInfo> an argument record stands for (0 is None).
ArgSessionInfo(a) ==
    CASE a.info = 0 -> None
      [] a.info = 1 -> Some(MinimalSessionInfo(a.session_id))
      [] a.info = 2 -> Some(SessionInfoRec(a.session_id, None, WorkDir, Some(<<"z">>)))
      [] a.info = 3 -> Some(SessionInfoRec(a.session_id, Some(21), <<>>, None))

NoReturn == [op |-> "none"]

MatcherInit ==
    /\ TrackerInit
    /\ AppNew
    /\ m_args \in MatcherArgs
    /\ m_ret = NoReturn

\* A return: the function called, the window it returned and (history) the
\* cache entry the session had when the call was made.
Returned(op, window) ==
    [op |-> op, window |-> window,
     hint |-> session_window_cache[m_args.session_id]]

FindOps == {"find_window", "find_window_for_session"}

\* matcher.find_window(terminal_app, session_id, session_info, tab_reference,
\*                     tab_id, &windows)
MFindWindow ==
    /\ m_ret = NoReturn
    /\ LET r == MatcherFindWindow(session_window_cache, ProcessTable,
                     m_args.terminal_app, m_args.session_id, ArgSessionInfo(m_args),
                     m_args.tab_reference, m_args.tab_id, m_args.windows)
       IN  /\ session_window_cache' = r.cache
           /\ m_ret' = Returned("find_window", r.window)
    /\ UNCHANGED <<app_vars, m_args, tracker_vars>>

\* matcher.find_window_for_session(session_id, &session_info, &windows)
MFindWindowForSession ==
    /\ m_ret = NoReturn
    /\ m_args.info # 0
    /\ LET r == MatcherFindWindowForSession(session_window_cache, ProcessTable,
                     m_args.session_id, Unwrap(ArgSessionInfo(m_args)),
                     m_args.windows)
       IN  /\ session_window_cache' = r.cache
           /\ m_ret' = Returned("find_window_for_session", r.window)
    /\ UNCHANGED <<app_vars, m_args, tracker_vars>>

\* matcher.clear_session_cache(session_id)
MClearSessionCache ==
    /\ m_ret = NoReturn
    /\ session_window_cache' =
           MatcherClearSessionCache(session_window_cache, m_args.session_id)
    /\ m_ret' = Returned("clear_session_cache", None)
    /\ UNCHANGED <<app_vars, m_args, tracker_vars>>

\* matcher.clear_all_cache()
MClearAllCache ==
    /\ m_ret = NoReturn
    /\ session_window_cache' = MatcherClearAllCache(session_window_cache)
    /\ m_ret' = Returned("clear_all_cache", None)
    /\ UNCHANGED <<app_vars, m_args, tracker_vars>>

\* The caller prepares its next call: another session, another terminal
\* application or a fresh snapshot (the other arguments stay as drawn).
MNextCall ==
    /\ m_ret # NoReturn
    /\ \/ \E s \in Sessions : m_args' = [m_args EXCEPT !.session_id = s]
       \/ \E app \in TerminalApps : m_args' = [m_args EXCEPT !.terminal_app = app]
       \/ \E ws \in Snapshots : m_args' = [m_args EXCEPT !.windows = ws]
    /\ m_ret' = NoReturn
    /\ UNCHANGED <<app_vars, session_window_cache, tracker_vars>>

MatcherNext ==
    \/ MFindWindow
    \/ MFindWindowForSession
    \/ MClearSessionCache
    \/ MClearAllCache
    \/ MNextCall

MatcherSpec == MatcherInit /\ [][MatcherNext]_vars

(***************************************************************************)
(* Direct calls of the matcher with a session process, a working directory *)
(* and up to FindMaxWindows windows on screen (FindSpec)                   *)
(***************************************************************************)
\* Longest snapshot handed to the matcher in FindSpec.
FindMaxWindows == 4

\* Three Terminal windows with the ids 3, 5 and 7 and two iTerm2 windows with
\* larger ids; no kitty window.
FindUniverse ==
    { Window(3, 112, "Terminal", None),
      Window(5, 50,  "Terminal", Some(<<"x", "b">>)),
      Window(7, 103, "Terminal", Some(<<"q">>)),
      Window(12, 104, "iTerm2",  Some(<<"b">>)),
      Window(9, 60,  "iTerm2",   Some(<<"7">>)) }

FindSnapshots == {q \in SeqsUpTo(FindUniverse, FindMaxWindows) : NoRepeat(q)}

\* The process table: a chain 100 -> 101 -> ... -> 113 -> 1 in which 103 and
\* 104 and, far above, 112 own windows.
FindTree == [p \in 100..112 |-> p + 1] @@ (113 :> 1)

\* Session processes: 112 is the 12th ancestor of 100, the 11th of 101 and the
\* 10th of 102.
FindPids == {None, Some(100), Some(101), Some(102)}

FindSessionInfos ==
    {None} \cup {Some(SessionInfoRec("a", pid, dir, None)) :
                    pid \in FindPids, dir \in {<<>>, WorkDir}}

\* "tab id 1 of window id 3"
TabRef3 == [TabRef2 EXCEPT ![Len(TabRef2)] = "3"]

FindArgs ==
    [terminal_app : TerminalApps, session_id : {"a"},
     session_info : FindSessionInfos, tab_reference : {None, Some(TabRef3)},
     tab_id : TabIds, windows : FindSnapshots]

FindInit ==
    /\ TrackerInit
    /\ AppNew
    /\ m_args \in FindArgs
    /\ m_ret = NoReturn

\* matcher.find_window(terminal_app, session_id, session_info, tab_reference,
\*                     tab_id, &windows)
FFindWindow ==
    /\ m_ret = NoReturn
    /\ LET r == MatcherFindWindow(session_window_cache, FindTree,
                     m_args.terminal_app, m_args.session_id, m_args.session_info,
                     m_args.tab_reference, m_args.tab_id, m_args.windows)
       IN  /\ session_window_cache' = r.cache
           /\ m_ret' = Returned("find_window", r.window)
    /\ UNCHANGED <<app_vars, m_args, tracker_vars>>

\* matcher.find_window_for_session(session_id, &session_info, &windows)
FFindWindowForSession ==
    /\ m_ret = NoReturn
    /\ IsSome(m_args.session_info)
    /\ LET r == MatcherFindWindowForSession(session_window_cache, FindTree,
                     m_args.session_id, Unwrap(m_args.session_info),
                     m_args.windows)
       IN  /\ session_window_cache' = r.cache
           /\ m_ret' = Returned("find_window_for_session", r.window)
    /\ UNCHANGED <<app_vars, m_args, tracker_vars>>

\* The screen changes by one window: one is closed or one is opened.
NextScreens(ws) ==
    {SelectSeq(ws, LAMBDA w : w # x) : x \in Elements(ws)}
        \cup {Append(ws, x) : x \in {y \in FindUniverse :
                                        /\ y \notin Elements(ws)
                                        /\ Len(ws) < FindMaxWindows}}

\* The caller prepares its next call, for another terminal application or on
\* a fresh snapshot.
FNextCall ==
    /\ m_ret # NoReturn
    /\ \/ \E app \in TerminalApps : m_args' = [m_args EXCEPT !.terminal_app = app]
       \/ \E ws \in NextScreens(m_args.windows) :
              m_args' = [m_args EXCEPT !.windows = ws]
    /\ m_ret' = NoReturn
    /\ UNCHANGED <<app_vars, session_window_cache, tracker_vars>>

FindNext ==
    \/ FFindWindow
    \/ FFindWindowForSession
    \/ FNextCall

FindSpec == FindInit /\ [][FindNext]_vars

(***************************************************************************)
(* Direct calls of find_window_for_session for sessions with and without a *)
(* process, a working directory and an activity status (SessionSpec)       *)
(***************************************************************************)
\* Session processes: 21 is two levels below the window owner 12; 40 and 39
\* are 19 and 20 levels below the window owner 13.
SessionPids == {None, Some(21), Some(40), Some(39)}

SessionInfos ==
    {SessionInfoRec("a", pid, dir, activity) :
        pid \in SessionPids, dir \in {<<>>, WorkDir, OtherDir},
        activity \in {None, Some(<<>>), Some(<<"z">>)}}

SessionArgs ==
    [session_id : {"a"}, session_info : SessionInfos, windows : Snapshots]

SessionInit ==
    /\ TrackerInit
    /\ AppNew
    /\ m_args \in SessionArgs
    /\ m_ret = NoReturn

\* matcher.find_window_for_session(session_id, &session_info, &windows)
SFindWindowForSession ==
    /\ m_ret = NoReturn
    /\ LET r == MatcherFindWindowForSession(session_window_cache, ProcessTable,
                     m_args.session_id, m_args.session_info, m_args.windows)
       IN  /\ session_window_cache' = r.cache
           /\ m_ret' = Returned("find_window_for_session", r.window)
    /\ UNCHANGED <<app_vars, m_args, tracker_vars>>

\* The caller prepares its next call, on a fresh snapshot.
SNextCall ==
    /\ m_ret # NoReturn
    /\ \E ws \in Snapshots : m_args' = [m_args EXCEPT !.windows = ws]
    /\ m_ret' = NoReturn
    /\ UNCHANGED <<app_vars, session_window_cache, tracker_vars>>

SessionNext ==
    \/ SFindWindowForSession
    \/ SNextCall

SessionSpec == SessionInit /\ [][SessionNext]_vars

(***************************************************************************)
(* window_tracker.rs                                                       *)
(*                                                                         *)
(* Every .await of a call is a step of its task: a sleep, the acquisition  *)
(* of a tokio RwLock guard, and the blocking enumeration before it.  A     *)
(* guard taken as a temporary is released by the step that uses it.        *)
(***************************************************************************)
\* A schedule that lost its last delay.
Delays_Short == <<500, 1000, 2000>>

\* window_tracker.rs 68: let delays = [0.5, 1.0, 2.0, 3.0], in milliseconds.
Delays == <<500, 1000, 2000, 3000>>

\* window_tracker.rs 58: Duration::from_millis(500)
ExplicitDelayMs == 500

\* The test without the terminal application: any identity counts.
HasExplicitIdentity_AnyApp(terminal_app, tab_reference, tab_id) ==
    IsSome(tab_reference) \/ IsSome(tab_id)

\* window_tracker.rs 56-57
HasExplicitIdentity(terminal_app, tab_reference, tab_id) ==
    \/ (terminal_app = "Terminal" /\ IsSome(tab_reference))
    \/ (terminal_app = "iTerm2" /\ IsSome(tab_id))

\* A conversion that leaves the session id of the copy empty.
ToWindowInfo_Anonymous(matched_window, session_id) ==
    [window_id     |-> matched_window.window_id,
     owner_pid     |-> matched_window.owner_pid,
     terminal_app  |-> matched_window.terminal_app,
     session_id    |-> "",
     tab_reference |-> matched_window.tab_reference,
     tab_id        |-> matched_window.tab_id,
     title         |-> matched_window.title]

\* window_tracker.rs 180-195 / 223-238: EnumeratedWindowInfo -> WindowInfo
ToWindowInfo(matched_window, session_id) ==
    [window_id     |-> matched_window.window_id,
     owner_pid     |-> matched_window.owner_pid,
     terminal_app  |-> matched_window.terminal_app,
     session_id    |-> session_id,
     tab_reference |-> matched_window.tab_reference,
     tab_id        |-> matched_window.tab_id,
     title         |-> matched_window.title]

Ok == [ok |-> TRUE]
Err(msg) == [ok |-> FALSE, error |-> msg]

\* The sessions slice of update_from_sessions: the live sessions, each once.
LiveLists == {q \in SeqsUpTo(Sessions, Cardinality(Sessions)) : NoRepeat(q)}

Begin(t, c, l, p) ==
    /\ pc[t] = "idle"
    /\ call' = [call EXCEPT ![t] = c]
    /\ local' = [local EXCEPT ![t] = l]
    /\ LET again == c = call[t] /\ c.op \in {"focus_window", "unregister_window"}
       IN  hist' = [hist EXCEPT ![t] =
                       [NoHist EXCEPT
                           !.map_at_call = session_window_map,
                           !.again = again,
                           !.prev_activations =
                               IF again /\ c.op = "focus_window"
                                        /\ ~hist[t].result.ok
                               THEN hist[t].activations ELSE <<>>]]
    /\ pc' = [pc EXCEPT ![t] = p]

\* History only: task t has matched a window or returned (what); every other
\* task whose call is under way notes it, with the place where it stands
\* itself.  h is the history with t's own record brought up to date.
Observe(h, t, what) ==
    [u \in Tasks |->
        IF u = t \/ pc[u] = "idle" THEN h[u]
        ELSE [h[u] EXCEPT !.seen = @ \cup {[task |-> t, what |-> what,
                                            call |-> call[t], at |-> pc[u]]}]]

\* The call returns result; its locals are dropped.
Return(t, h, result) ==
    /\ pc' = [pc EXCEPT ![t] = "idle"]
    /\ local' = [local EXCEPT ![t] = NoLocal]
    /\ hist' = Observe([hist EXCEPT ![t] = [h EXCEPT !.returned = TRUE,
                                                     !.result = result]],
                       t, "returned")

Goto(t, p) == pc' = [pc EXCEPT ![t] = p]

MapLockFree == map_writer = None /\ map_readers = {}

\* session_window_map.write().await
MapWriteLock(t, from, to) ==
    /\ pc[t] = from
    /\ MapLockFree
    /\ map_writer' = Some(t)
    /\ Goto(t, to)
    /\ UNCHANGED <<app_vars, matcher_vars, session_window_map, map_readers, matcher_writer,
                   call, local, hist>>

\* session_window_map.read().await
MapReadLock(t, from, to) ==
    /\ pc[t] = from
    /\ map_writer = None
    /\ map_readers' = map_readers \cup {t}
    /\ Goto(t, to)
    /\ UNCHANGED <<app_vars, matcher_vars, session_window_map, map_writer, matcher_writer,
                   call, local, hist>>

\* window_matcher.write().await
MatcherLock(t, from, to) ==
    /\ pc[t] = from
    /\ matcher_writer = None
    /\ matcher_writer' = Some(t)
    /\ Goto(t, to)
    /\ UNCHANGED <<app_vars, matcher_vars, session_window_map, map_writer, map_readers,
                   call, local, hist>>

\* WindowEnumerator::get_all_terminal_windows() at the head of the tracker's
\* find_window / find_window_for_session: whatever is on screen now.
Enumerate(t, from, to, session_id) ==
    /\ pc[t] = from
    /\ \E ws \in Snapshots :
          local' = [local EXCEPT ![t].terminal_windows = ws]
    /\ hist' = [hist EXCEPT ![t].attempts =
                    Append(@, [at |-> hist[t].elapsed, session_id |-> session_id])]
    /\ Goto(t, to)
    /\ UNCHANGED <<app_vars, matcher_vars, session_window_map, map_writer, map_readers,
                   matcher_writer, call>>

\* A match that keeps the matcher's guard after the call.
Matched_KeepGuard(t, r, session_id, to) ==
    LET found == IF IsSome(r.window)
                 THEN Some(ToWindowInfo(Unwrap(r.window), session_id))
                 ELSE None
    IN  /\ matcher_writer = Some(t)
        /\ session_window_cache' = r.cache
        /\ local' = [local EXCEPT ![t].terminal_windows = <<>>,
                                  ![t].window_info = found]
        /\ hist' = LET h == [hist EXCEPT ![t].outcomes = Append(@, found),
                                          ![t].hint = session_window_cache[session_id]]
                    IN  IF IsSome(found) THEN Observe(h, t, "matched") ELSE h
        /\ Goto(t, to)
        /\ UNCHANGED <<app_vars, m_args, m_ret, session_window_map, map_writer,
                       map_readers, matcher_writer, call>>

\* The rest of the tracker's find_window / find_window_for_session: the
\* matcher call under the write guard, the conversion, the guard dropped.
Matched(t, r, session_id, to) ==
    LET found == IF IsSome(r.window)
                 THEN Some(ToWindowInfo(Unwrap(r.window), session_id))
                 ELSE None
    IN  /\ matcher_writer = Some(t)
        /\ session_window_cache' = r.cache
        /\ matcher_writer' = None
        /\ local' = [local EXCEPT ![t].terminal_windows = <<>>,
                                  ![t].window_info = found]
        /\ hist' = LET h == [hist EXCEPT ![t].outcomes = Append(@, found),
                                          ![t].hint = session_window_cache[session_id]]
                    IN  IF IsSome(found) THEN Observe(h, t, "matched") ELSE h
        /\ Goto(t, to)
        /\ UNCHANGED <<app_vars, m_args, m_ret, session_window_map, map_writer,
                       map_readers, call>>

\* session_window_map.insert(session_id, window_info) under the write guard
Inserted(t, session_id) ==
    /\ map_writer = Some(t)
    /\ session_window_map' =
           [session_window_map EXCEPT ![session_id] = local[t].window_info]
    /\ map_writer' = None

InsertRecord(t, session_id) ==
    [session_id |-> session_id, window_info |-> Unwrap(local[t].window_info)]

------------------------------------------------------------------------------
\* WindowTracker::register_window (46-80)
CallRegister(t, session_id, terminal_app, tab_reference, tab_id) ==
    /\ Begin(t, [op |-> "register_window", session_id |-> session_id,
                 terminal_app |-> terminal_app, tab_reference |-> tab_reference,
                 tab_id |-> tab_id],
             [NoLocal EXCEPT
                 !.explicit = HasExplicitIdentity(terminal_app, tab_reference, tab_id),
                 !.index = 1],
             "reg_sleep")
    /\ UNCHANGED <<app_vars, matcher_vars, session_window_map, map_writer, map_readers,
                   matcher_writer>>

\* 58 / 70: tokio::time::sleep(..).await
RegSleep(t) ==
    /\ pc[t] = "reg_sleep"
    /\ hist' = [hist EXCEPT ![t].elapsed =
                    @ + (IF local[t].explicit THEN ExplicitDelayMs
                         ELSE Delays[local[t].index])]
    /\ Goto(t, "fw_enum")
    /\ UNCHANGED <<app_vars, matcher_vars, session_window_map, map_writer, map_readers,
                   matcher_writer, call, local>>

\* WindowTracker::find_window (155-199), called at 60 / 72
FwEnumerate(t) == Enumerate(t, "fw_enum", "fw_lock", call[t].session_id)

\* A matcher guard that admits several holders (a read guard).
FwLock_Shared(t) ==
    /\ pc[t] = "fw_lock"
    /\ matcher_writer' = Some(t)
    /\ Goto(t, "fw_match")
    /\ UNCHANGED <<app_vars, matcher_vars, session_window_map, map_writer, map_readers,
                   call, local, hist>>

\* 169: let mut matcher = self.window_matcher.write().await
FwLock(t) == MatcherLock(t, "fw_lock", "fw_match")

FwMatch(t) ==
    /\ pc[t] = "fw_match"
    /\ Matched(t, MatcherFindWindow(session_window_cache, ProcessTable,
                      call[t].terminal_app, call[t].session_id, None,
                      call[t].tab_reference, call[t].tab_id,
                      local[t].terminal_windows),
               call[t].session_id, "reg_check")

\* A loop that starts its schedule over instead of giving up.
RegCheck_NoGiveUp(t) ==
    /\ pc[t] = "reg_check"
    /\ IF IsSome(local[t].window_info)
       THEN Goto(t, "reg_lock") /\ UNCHANGED <<local, hist>>
       ELSE IF local[t].explicit
       THEN Return(t, hist[t], None)
       ELSE /\ local' = [local EXCEPT ![t].index =
                            IF @ = Len(Delays) THEN 1 ELSE @ + 1]
            /\ Goto(t, "reg_sleep")
            /\ UNCHANGED hist
    /\ UNCHANGED <<app_vars, matcher_vars, session_window_map, map_writer, map_readers,
                   matcher_writer, call>>

\* A registration that, giving up, forgets what was tracked for the session.
RegCheck_Forget(t) ==
    /\ pc[t] = "reg_check"
    /\ IF IsSome(local[t].window_info)
       THEN Goto(t, "reg_lock") /\ UNCHANGED <<local, hist, session_window_map>>
       ELSE IF local[t].explicit \/ local[t].index = Len(Delays)
       THEN /\ Return(t, hist[t], None)
            /\ session_window_map' =
                   [session_window_map EXCEPT ![call[t].session_id] = None]
       ELSE /\ local' = [local EXCEPT ![t].index = @ + 1]
            /\ Goto(t, "reg_sleep")
            /\ UNCHANGED <<hist, session_window_map>>
    /\ UNCHANGED <<app_vars, matcher_vars, map_writer, map_readers, matcher_writer, call>>

\* 60 / 72: if let Some(window_info) = ... ; 64 return; 69 next delay; 79 warn
RegCheck(t) ==
    /\ pc[t] = "reg_check"
    /\ IF IsSome(local[t].window_info)
       THEN Goto(t, "reg_lock") /\ UNCHANGED <<local, hist>>
       ELSE IF local[t].explicit \/ local[t].index = Len(Delays)
       THEN Return(t, hist[t], None)
       ELSE /\ local' = [local EXCEPT ![t].index = @ + 1]
            /\ Goto(t, "reg_sleep")
            /\ UNCHANGED hist
    /\ UNCHANGED <<app_vars, matcher_vars, session_window_map, map_writer, map_readers,
                   matcher_writer, call>>

\* 61 / 73: self.session_window_map.write().await
RegLock(t) == MapWriteLock(t, "reg_lock", "reg_insert")

\* The insert of the retry loop without its return: the loop goes on.
RegInsert_Continue(t) ==
    /\ pc[t] = "reg_insert"
    /\ Inserted(t, call[t].session_id)
    /\ LET h == [hist[t] EXCEPT !.inserts =
                    Append(@, InsertRecord(t, call[t].session_id))]
       IN  IF local[t].explicit \/ local[t].index = Len(Delays)
           THEN Return(t, h, None)
           ELSE /\ hist' = [hist EXCEPT ![t] = h]
                /\ local' = [local EXCEPT ![t].index = @ + 1,
                                          ![t].window_info = None]
                /\ Goto(t, "reg_sleep")
    /\ UNCHANGED <<app_vars, matcher_vars, map_readers, matcher_writer, call>>

\* An insert that keeps an entry that is already there (entry().or_insert).
RegInsert_IfAbsent(t) ==
    /\ pc[t] = "reg_insert"
    /\ map_writer = Some(t)
    /\ session_window_map' =
           IF IsSome(session_window_map[call[t].session_id])
           THEN session_window_map
           ELSE [session_window_map EXCEPT
                    ![call[t].session_id] = local[t].window_info]
    /\ map_writer' = None
    /\ Return(t, [hist[t] EXCEPT !.inserts =
                      Append(@, InsertRecord(t, call[t].session_id))], None)
    /\ UNCHANGED <<app_vars, matcher_vars, map_readers, matcher_writer, call>>

\* An insert that is refused when another session is tracked with the same
\* window id.
RegInsert_RefuseTaken(t) ==
    /\ pc[t] = "reg_insert"
    /\ map_writer = Some(t)
    /\ session_window_map' =
           IF \E s \in Sessions \ {call[t].session_id} :
                  /\ IsSome(session_window_map[s])
                  /\ Unwrap(session_window_map[s]).window_id
                        = Unwrap(local[t].window_info).window_id
           THEN session_window_map
           ELSE [session_window_map EXCEPT
                    ![call[t].session_id] = local[t].window_info]
    /\ map_writer' = None
    /\ Return(t, [hist[t] EXCEPT !.inserts =
                      Append(@, InsertRecord(t, call[t].session_id))], None)
    /\ UNCHANGED <<app_vars, matcher_vars, map_readers, matcher_writer, call>>

\* An insert that keeps one session per window: it drops the entries of the
\* other sessions that hold the same window id.
RegInsert_OnePerWindow(t) ==
    /\ pc[t] = "reg_insert"
    /\ map_writer = Some(t)
    /\ session_window_map' =
           [s \in Sessions |->
               IF s = call[t].session_id THEN local[t].window_info
               ELSE IF /\ IsSome(session_window_map[s])
                       /\ Unwrap(session_window_map[s]).window_id
                             = Unwrap(local[t].window_info).window_id
               THEN None
               ELSE session_window_map[s]]
    /\ map_writer' = None
    /\ Return(t, [hist[t] EXCEPT !.inserts =
                      Append(@, InsertRecord(t, call[t].session_id))], None)
    /\ UNCHANGED <<app_vars, matcher_vars, map_readers, matcher_writer, call>>

\* 61-64 / 73-75: .insert(session_id.clone(), window_info); return
RegInsert(t) ==
    /\ pc[t] = "reg_insert"
    /\ Inserted(t, call[t].session_id)
    /\ Return(t, [hist[t] EXCEPT !.inserts =
                      Append(@, InsertRecord(t, call[t].session_id))], None)
    /\ UNCHANGED <<app_vars, matcher_vars, map_readers, matcher_writer, call>>

------------------------------------------------------------------------------
\* WindowTracker::unregister_window (83-87)
CallUnregister(t, session_id) ==
    /\ Begin(t, [op |-> "unregister_window", session_id |-> session_id],
             NoLocal, "unreg_lock")
    /\ UNCHANGED <<app_vars, matcher_vars, session_window_map, map_writer, map_readers,
                   matcher_writer>>

UnregLock(t) == MapWriteLock(t, "unreg_lock", "unreg_remove")

\* A removal that clears the whole map.
UnregRemove_Clear(t) ==
    /\ pc[t] = "unreg_remove"
    /\ map_writer = Some(t)
    /\ session_window_map' = EmptyMap
    /\ map_writer' = None
    /\ Return(t, hist[t], None)
    /\ UNCHANGED <<app_vars, matcher_vars, map_readers, matcher_writer, call>>

\* A removal that also cancels the registrations of the session that are
\* under way.
UnregRemove_Cancelling(t) ==
    /\ pc[t] = "unreg_remove"
    /\ map_writer = Some(t)
    /\ session_window_map' = [session_window_map EXCEPT ![call[t].session_id] = None]
    /\ map_writer' = None
    /\ LET cancelled == {u \in Tasks \ {t} :
                            /\ call[u].op = "register_window"
                            /\ call[u].session_id = call[t].session_id
                            /\ pc[u] \in {"reg_sleep", "fw_enum", "reg_check"}}
       IN  /\ pc' = [u \in Tasks |->
                        IF u = t \/ u \in cancelled THEN "idle" ELSE pc[u]]
           /\ local' = [u \in Tasks |->
                           IF u = t \/ u \in cancelled THEN NoLocal ELSE local[u]]
           /\ hist' = [u \in Tasks |->
                          IF u = t \/ u \in cancelled
                          THEN [hist[u] EXCEPT !.returned = TRUE]
                          ELSE hist[u]]
    /\ UNCHANGED <<app_vars, matcher_vars, map_readers, matcher_writer, call>>

\* A removal that also forgets the session's cached window id.
UnregRemove_Evict(t) ==
    /\ pc[t] = "unreg_remove"
    /\ map_writer = Some(t)
    /\ session_window_map' = [session_window_map EXCEPT ![call[t].session_id] = None]
    /\ session_window_cache' = [session_window_cache EXCEPT ![call[t].session_id] = None]
    /\ map_writer' = None
    /\ Return(t, hist[t], None)
    /\ UNCHANGED <<app_vars, m_args, m_ret, map_readers, matcher_writer, call>>

\* 84: .remove(session_id)
UnregRemove(t) ==
    /\ pc[t] = "unreg_remove"
    /\ map_writer = Some(t)
    /\ session_window_map' = [session_window_map EXCEPT ![call[t].session_id] = None]
    /\ map_writer' = None
    /\ Return(t, hist[t], None)
    /\ UNCHANGED <<app_vars, matcher_vars, map_readers, matcher_writer, call>>

------------------------------------------------------------------------------
\* WindowTracker::window_info (90-92)
CallWindowInfo(t, session_id) ==
    /\ Begin(t, [op |-> "window_info", session_id |-> session_id],
             NoLocal, "wi_lock")
    /\ UNCHANGED <<app_vars, matcher_vars, session_window_map, map_writer, map_readers,
                   matcher_writer>>

WiLock(t) == MapReadLock(t, "wi_lock", "wi_read")

\* 91: .get(session_id).cloned()
WiRead(t) ==
    /\ pc[t] = "wi_read"
    /\ t \in map_readers
    /\ map_readers' = map_readers \ {t}
    /\ Return(t, hist[t], session_window_map[call[t].session_id])
    /\ UNCHANGED <<app_vars, matcher_vars, session_window_map, map_writer, matcher_writer,
                   call>>

\* WindowTracker::all_tracked_windows (95-97)
CallAllTrackedWindows(t) ==
    /\ Begin(t, [op |-> "all_tracked_windows"], NoLocal, "all_lock")
    /\ UNCHANGED <<app_vars, matcher_vars, session_window_map, map_writer, map_readers,
                   matcher_writer>>

AllLock(t) == MapReadLock(t, "all_lock", "all_read")

\* 96: .values().cloned().collect(), in the HashMap's arbitrary order
AllRead(t) ==
    /\ pc[t] = "all_read"
    /\ t \in map_readers
    /\ map_readers' = map_readers \ {t}
    /\ LET values == {Unwrap(session_window_map[s]) :
                          s \in {x \in Sessions : IsSome(session_window_map[x])}}
       IN  \E windows \in {q \in SeqsUpTo(values, Cardinality(values)) :
                               Len(q) = Cardinality(values) /\ NoRepeat(q)} :
               Return(t, hist[t], windows)
    /\ UNCHANGED <<app_vars, matcher_vars, session_window_map, map_writer, matcher_writer,
                   call>>

------------------------------------------------------------------------------
\* WindowTracker::focus_window (100-119)
CallFocus(t, session_id) ==
    /\ Begin(t, [op |-> "focus_window", session_id |-> session_id],
             NoLocal, "focus_lock")
    /\ UNCHANGED <<app_vars, matcher_vars, session_window_map, map_writer, map_readers,
                   matcher_writer>>

\* 101: self.window_info(session_id).await
FocusLock(t) == MapReadLock(t, "focus_lock", "focus_read")

\* A lookup whose failure is swallowed: the call succeeds with nothing done.
FocusRead_Swallow(t) ==
    /\ pc[t] = "focus_read"
    /\ t \in map_readers
    /\ map_readers' = map_readers \ {t}
    /\ IF IsSome(session_window_map[call[t].session_id])
       THEN /\ local' = [local EXCEPT ![t].window_info =
                            session_window_map[call[t].session_id]]
            /\ Goto(t, "focus_wmctrl")
            /\ UNCHANGED hist
       ELSE Return(t, hist[t], Ok)
    /\ UNCHANGED <<app_vars, matcher_vars, session_window_map, map_writer, matcher_writer,
                   call>>

\* 101-102: .ok_or_else(|| format!("No window registered for session: {}", ..))?
FocusRead(t) ==
    /\ pc[t] = "focus_read"
    /\ t \in map_readers
    /\ map_readers' = map_readers \ {t}
    /\ IF IsSome(session_window_map[call[t].session_id])
       THEN /\ local' = [local EXCEPT ![t].window_info =
                            session_window_map[call[t].session_id]]
            /\ Goto(t, "focus_wmctrl")
            /\ UNCHANGED hist
       ELSE Return(t, hist[t],
                   Err("No window registered for session: " \o call[t].session_id))
    /\ UNCHANGED <<app_vars, matcher_vars, session_window_map, map_writer, matcher_writer,
                   call>>

\* What running an external utility can give: it cannot be started, or it
\* runs and exits with or without success.
CommandOutcomes == {"spawn_error", "exit_failure", "exit_success"}

Activation(t, utility, output) ==
    [utility |-> utility, window_info |-> Unwrap(local[t].window_info),
     output |-> output]

\* A self-healing activation: a window that cannot be focused is forgotten.
FocusWmctrl_Healing(t) ==
    /\ pc[t] = "focus_wmctrl"
    /\ \E output \in CommandOutcomes :
          LET h == [hist[t] EXCEPT !.activations = Append(@, Activation(t, "wmctrl", output))]
          IN  CASE output = "exit_success" ->
                      Return(t, h, Ok) /\ UNCHANGED session_window_map
                [] output = "exit_failure" ->
                      /\ Return(t, h, Err("wmctrl failed to focus window"))
                      /\ session_window_map' =
                             [session_window_map EXCEPT ![call[t].session_id] = None]
                [] output = "spawn_error" ->
                      /\ hist' = [hist EXCEPT ![t] = h]
                      /\ Goto(t, "focus_xdotool")
                      /\ UNCHANGED <<local, session_window_map>>
    /\ UNCHANGED <<app_vars, matcher_vars, map_writer, map_readers, matcher_writer, call>>

\* WindowTracker::focus_window_linux (309-326): wmctrl -i -a 0x<id>
FocusWmctrl(t) ==
    /\ pc[t] = "focus_wmctrl"
    /\ \E output \in CommandOutcomes :
          LET h == [hist[t] EXCEPT !.activations = Append(@, Activation(t, "wmctrl", output))]
          IN  CASE output = "exit_success" -> Return(t, h, Ok)
                [] output = "exit_failure" ->
                      Return(t, h, Err("wmctrl failed to focus window"))
                [] output = "spawn_error" ->
                      /\ hist' = [hist EXCEPT ![t] = h]
                      /\ Goto(t, "focus_xdotool")
                      /\ UNCHANGED local
    /\ UNCHANGED <<app_vars, matcher_vars, session_window_map, map_writer, map_readers,
                   matcher_writer, call>>

\* WindowTracker::focus_window_linux (327-338): xdotool windowactivate <id>
FocusXdotool(t) ==
    /\ pc[t] = "focus_xdotool"
    /\ \E output \in CommandOutcomes :
          LET h == [hist[t] EXCEPT !.activations = Append(@, Activation(t, "xdotool", output))]
          IN  IF output = "exit_success"
              THEN Return(t, h, Ok)
              ELSE Return(t, h, Err("Failed to focus window on Linux"))
    /\ UNCHANGED <<app_vars, matcher_vars, session_window_map, map_writer, map_readers,
                   matcher_writer, call>>

------------------------------------------------------------------------------
\* WindowTracker::update_from_sessions (122-152)
CallUpdate(t, sessions) ==
    /\ Begin(t, [op |-> "update_from_sessions", sessions |-> sessions],
             NoLocal, "upd_lock")
    /\ UNCHANGED <<app_vars, matcher_vars, session_window_map, map_writer, map_readers,
                   matcher_writer>>

\* 128: let mut window_map = self.session_window_map.write().await
UpdLock(t) == MapWriteLock(t, "upd_lock", "upd_remove")

\* A reconciliation that forgot to remove.
UpdRemove_KeepAll(t) ==
    /\ pc[t] = "upd_remove"
    /\ map_writer = Some(t)
    /\ map_writer' = None
    /\ local' = [local EXCEPT ![t].index = 1]
    /\ Goto(t, "upd_next")
    /\ UNCHANGED <<app_vars, matcher_vars, session_window_map, map_readers, matcher_writer,
                   call, hist>>

\* A reconciliation without its drop(window_map): the guard lives on into
\* the backfill loop.
UpdRemove_NoDrop(t) ==
    /\ pc[t] = "upd_remove"
    /\ map_writer = Some(t)
    /\ LET session_ids == {call[t].sessions[i] : i \in 1..Len(call[t].sessions)}
       IN  session_window_map' =
               [s \in Sessions |-> IF s \in session_ids
                                   THEN session_window_map[s] ELSE None]
    /\ local' = [local EXCEPT ![t].index = 1]
    /\ Goto(t, "upd_next")
    /\ UNCHANGED <<app_vars, matcher_vars, map_writer, map_readers, matcher_writer, call, hist>>

\* 123-137: remove the tracked sessions that are not live; drop(window_map)
UpdRemove(t) ==
    /\ pc[t] = "upd_remove"
    /\ map_writer = Some(t)
    /\ LET session_ids == {call[t].sessions[i] : i \in 1..Len(call[t].sessions)}
       IN  session_window_map' =
               [s \in Sessions |-> IF s \in session_ids
                                   THEN session_window_map[s] ELSE None]
    /\ map_writer' = None
    /\ local' = [local EXCEPT ![t].index = 1]
    /\ Goto(t, "upd_next")
    /\ UNCHANGED <<app_vars, matcher_vars, map_readers, matcher_writer, call, hist>>

\* 140: for session in sessions
UpdNext(t) ==
    /\ pc[t] = "upd_next"
    /\ IF local[t].index <= Len(call[t].sessions)
       THEN Goto(t, "upd_wi_lock") /\ UNCHANGED <<local, hist>>
       ELSE Return(t, hist[t], None)
    /\ UNCHANGED <<app_vars, matcher_vars, session_window_map, map_writer, map_readers,
                   matcher_writer, call>>

UpdSession(t) == call[t].sessions[local[t].index]

\* 141: self.window_info(&session.id).await
UpdWiLock(t) == MapReadLock(t, "upd_wi_lock", "upd_read")

\* A backfill that probes every live session, mapped or not.
UpdRead_AlwaysProbe(t) ==
    /\ pc[t] = "upd_read"
    /\ t \in map_readers
    /\ map_readers' = map_readers \ {t}
    /\ Goto(t, "ffs_enum")
    /\ UNCHANGED <<app_vars, matcher_vars, session_window_map, map_writer, matcher_writer,
                   call, local, hist>>

\* 141: .is_none()
UpdRead(t) ==
    /\ pc[t] = "upd_read"
    /\ t \in map_readers
    /\ map_readers' = map_readers \ {t}
    /\ IF IsSome(session_window_map[UpdSession(t)])
       THEN /\ local' = [local EXCEPT ![t].index = @ + 1]
            /\ Goto(t, "upd_next")
       ELSE /\ Goto(t, "ffs_enum")
            /\ UNCHANGED local
    /\ UNCHANGED <<app_vars, matcher_vars, session_window_map, map_writer, matcher_writer,
                   call, hist>>

\* WindowTracker::find_window_for_session (201-242), called at 144
FfsEnumerate(t) == Enumerate(t, "ffs_enum", "ffs_lock", UpdSession(t))

FfsLock(t) == MatcherLock(t, "ffs_lock", "ffs_match")

FfsMatch(t) ==
    /\ pc[t] = "ffs_match"
    /\ Matched(t, MatcherFindWindowForSession(session_window_cache, ProcessTable,
                      UpdSession(t), MinimalSessionInfo(UpdSession(t)),
                      local[t].terminal_windows),
               UpdSession(t), "upd_check")

\* 144-149: if let Some(window_info) = ... else ...
UpdCheck(t) ==
    /\ pc[t] = "upd_check"
    /\ IF IsSome(local[t].window_info)
       THEN Goto(t, "upd_ins_lock") /\ UNCHANGED local
       ELSE /\ local' = [local EXCEPT ![t].index = @ + 1]
            /\ Goto(t, "upd_next")
    /\ UNCHANGED <<app_vars, matcher_vars, session_window_map, map_writer, map_readers,
                   matcher_writer, call, hist>>

\* 145: self.session_window_map.write().await
UpdInsLock(t) == MapWriteLock(t, "upd_ins_lock", "upd_insert")

\* A backfill insert that keeps an entry that is already there.
UpdInsert_IfAbsent(t) ==
    /\ pc[t] = "upd_insert"
    /\ map_writer = Some(t)
    /\ session_window_map' =
           IF IsSome(session_window_map[UpdSession(t)])
           THEN session_window_map
           ELSE [session_window_map EXCEPT ![UpdSession(t)] = local[t].window_info]
    /\ map_writer' = None
    /\ hist' = [hist EXCEPT ![t].inserts = Append(@, InsertRecord(t, UpdSession(t)))]
    /\ local' = [local EXCEPT ![t].index = @ + 1, ![t].window_info = None]
    /\ Goto(t, "upd_next")
    /\ UNCHANGED <<app_vars, matcher_vars, map_readers, matcher_writer, call>>

\* 145: .insert(session.id.clone(), window_info)
UpdInsert(t) ==
    /\ pc[t] = "upd_insert"
    /\ Inserted(t, UpdSession(t))
    /\ hist' = [hist EXCEPT ![t].inserts = Append(@, InsertRecord(t, UpdSession(t)))]
    /\ local' = [local EXCEPT ![t].index = @ + 1, ![t].window_info = None]
    /\ Goto(t, "upd_next")
    /\ UNCHANGED <<app_vars, matcher_vars, map_readers, matcher_writer, call>>

------------------------------------------------------------------------------
\* One step of task t.
TaskNext(t) ==
    \/ \E s \in Sessions, app \in TerminalApps,
          ref \in CallerTabReferences, tid \in TabIds : CallRegister(t, s, app, ref, tid)
    \/ RegSleep(t)
    \/ FwEnumerate(t)
    \/ FwLock(t)
    \/ FwMatch(t)
    \/ RegCheck(t)
    \/ RegLock(t)
    \/ RegInsert(t)
    \/ \E s \in Sessions : CallUnregister(t, s)
    \/ UnregLock(t)
    \/ UnregRemove(t)
    \/ \E s \in Sessions : CallWindowInfo(t, s)
    \/ WiLock(t)
    \/ WiRead(t)
    \/ CallAllTrackedWindows(t)
    \/ AllLock(t)
    \/ AllRead(t)
    \/ \E s \in Sessions : CallFocus(t, s)
    \/ FocusLock(t)
    \/ FocusRead(t)
    \/ FocusWmctrl(t)
    \/ FocusXdotool(t)
    \/ \E live \in LiveLists : CallUpdate(t, live)
    \/ UpdLock(t)
    \/ UpdRemove(t)
    \/ UpdNext(t)
    \/ UpdWiLock(t)
    \/ UpdRead(t)
    \/ FfsEnumerate(t)
    \/ FfsLock(t)
    \/ FfsMatch(t)
    \/ UpdCheck(t)
    \/ UpdInsLock(t)
    \/ UpdInsert(t)

\* The tracker driven by one caller that makes one call after another.
Init ==
    /\ TrackerInit
    /\ AppNew
    /\ m_args = CHOOSE a \in MatcherArgs : TRUE
    /\ m_ret = NoReturn

Next == TaskNext("t1")

Spec == Init /\ [][Next]_vars

(***************************************************************************)
(* Concurrent callers (ConcSpec): each task makes one call, a              *)
(* register_window without an explicit identity or an unregister_window,   *)
(* and the calls interleave at every .await, while the screen shows no     *)
(* window or one of two Terminal windows.  The tracker is fresh or has     *)
(* session "a" tracked by an earlier registration.                         *)
(***************************************************************************)
ConcScreens ==
    { <<>>,
      <<Window(1, 11, "Terminal", None)>>,
      <<Window(2, 12, "Terminal", Some(<<"b", "7">>))>> }

\* A fresh tracker, or the tracker once register_window("a", "Terminal",
\* None, None) has matched the first of these windows and returned: the
\* entry and the hint of "a" are set.
ConcInit ==
    /\ session_window_cache \in
           {EmptyCache, [EmptyCache EXCEPT !["a"] = Some(1)]}
    /\ session_window_map =
           IF session_window_cache = EmptyCache THEN EmptyMap
           ELSE [EmptyMap EXCEPT !["a"] =
                    Some(ToWindowInfo(Window(1, 11, "Terminal", None), "a"))]
    /\ map_writer = None
    /\ map_readers = {}
    /\ matcher_writer = None
    /\ pc = [t \in Tasks |-> "idle"]
    /\ call = [t \in Tasks |-> NoCall]
    /\ local = [t \in Tasks |-> NoLocal]
    /\ hist = [t \in Tasks |-> NoHist]
    /\ m_args = CHOOSE a \in MatcherArgs : TRUE
    /\ m_ret = NoReturn
    /\ AppNew

ConcCallRegister(t) ==
    /\ call[t] = NoCall
    /\ \E s \in Sessions : CallRegister(t, s, "Terminal", None, None)

ConcCallUnregister(t) ==
    /\ call[t] = NoCall
    /\ \E s \in Sessions : CallUnregister(t, s)

\* 163: the enumeration, on one of the screens above.
ConcEnumerate(t) ==
    /\ FwEnumerate(t)
    /\ local'[t].terminal_windows \in ConcScreens

ConcTaskNext(t) ==
    \/ ConcCallRegister(t)
    \/ RegSleep(t)
    \/ ConcEnumerate(t)
    \/ FwLock(t)
    \/ FwMatch(t)
    \/ RegCheck(t)
    \/ RegLock(t)
    \/ RegInsert(t)
    \/ ConcCallUnregister(t)
    \/ UnregLock(t)
    \/ UnregRemove(t)

ConcNext == \E t \in Tasks : ConcTaskNext(t)

ConcSpec == ConcInit /\ [][ConcNext]_vars

(***************************************************************************)
(* A backfill racing a registration (RaceSpec): task t1 makes one          *)
(* update_from_sessions call and task t2 one register_window call without  *)
(* an explicit identity; the calls interleave at every .await.  The        *)
(* tracker is fresh, or session "a" was registered with the first window   *)
(* of ConcScreens and unregistered again (its hint is left in the cache).  *)
(***************************************************************************)
RaceLiveLists == {<<"a">>, <<"b", "a">>}

RaceInit ==
    /\ TrackerInit
    /\ AppNew
    /\ m_args = CHOOSE a \in MatcherArgs : TRUE
    /\ m_ret = NoReturn

\* The cache as an earlier register_window("a", ..) that matched window 1 and
\* the unregister_window("a") after it have left it.
RaceInitHinted ==
    /\ session_window_cache = [EmptyCache EXCEPT !["a"] = Some(1)]
    /\ session_window_map = EmptyMap
    /\ map_writer = None
    /\ map_readers = {}
    /\ matcher_writer = None
    /\ pc = [t \in Tasks |-> "idle"]
    /\ call = [t \in Tasks |-> NoCall]
    /\ local = [t \in Tasks |-> NoLocal]
    /\ hist = [t \in Tasks |-> NoHist]
    /\ m_args = CHOOSE a \in MatcherArgs : TRUE
    /\ m_ret = NoReturn
    /\ AppNew

RaceCallUpdate(t) ==
    /\ call[t] = NoCall
    /\ \E live \in RaceLiveLists : CallUpdate(t, live)

\* 203: the enumeration of the backfill probe, on one of the screens above.
RaceEnumerate(t) ==
    /\ FfsEnumerate(t)
    /\ local'[t].terminal_windows \in ConcScreens

RaceUpdateNext(t) ==
    \/ RaceCallUpdate(t)
    \/ UpdLock(t)
    \/ UpdRemove(t)
    \/ UpdNext(t)
    \/ UpdWiLock(t)
    \/ UpdRead(t)
    \/ RaceEnumerate(t)
    \/ FfsLock(t)
    \/ FfsMatch(t)
    \/ UpdCheck(t)
    \/ UpdInsLock(t)
    \/ UpdInsert(t)

RaceRegisterNext(t) ==
    \/ ConcCallRegister(t)
    \/ RegSleep(t)
    \/ ConcEnumerate(t)
    \/ FwLock(t)
    \/ FwMatch(t)
    \/ RegCheck(t)
    \/ RegLock(t)
    \/ RegInsert(t)

RaceNext == RaceUpdateNext("t1") \/ RaceRegisterNext("t2")

RaceSpec == (RaceInit \/ RaceInitHinted) /\ [][RaceNext]_vars

(***************************************************************************)
(* Every operation against every other (MixSpec): each of the two tasks    *)
(* makes one call of any of the six public operations of the tracker (the  *)
(* calls that name one session name session "a") and                       *)
(* the calls interleave at every .await; the tracker starts as in          *)
(* ConcSpec.                                                               *)
(***************************************************************************)
MixCallRegister(t) ==
    /\ call[t] = NoCall
    /\ CallRegister(t, "a", "Terminal", None, None)

MixCallUnregister(t) ==
    /\ call[t] = NoCall
    /\ CallUnregister(t, "a")

MixCallWindowInfo(t) ==
    /\ call[t] = NoCall
    /\ CallWindowInfo(t, "a")

MixCallAllTrackedWindows(t) ==
    /\ call[t] = NoCall
    /\ CallAllTrackedWindows(t)

MixCallFocus(t) ==
    /\ call[t] = NoCall
    /\ CallFocus(t, "a")

\* The screen shows no window or one Terminal window.
MixScreens == {<<>>, <<Window(1, 11, "Terminal", None)>>}

\* 163: the enumeration of a registration attempt.
MixFwEnumerate(t) ==
    /\ FwEnumerate(t)
    /\ local'[t].terminal_windows \in MixScreens

\* 203: the enumeration of the backfill probe.
MixFfsEnumerate(t) ==
    /\ FfsEnumerate(t)
    /\ local'[t].terminal_windows \in MixScreens

MixTaskNext(t) ==
    \/ MixCallRegister(t)
    \/ RegSleep(t)
    \/ MixFwEnumerate(t)
    \/ FwLock(t)
    \/ FwMatch(t)
    \/ RegCheck(t)
    \/ RegLock(t)
    \/ RegInsert(t)
    \/ MixCallUnregister(t)
    \/ UnregLock(t)
    \/ UnregRemove(t)
    \/ MixCallWindowInfo(t)
    \/ WiLock(t)
    \/ WiRead(t)
    \/ MixCallAllTrackedWindows(t)
    \/ AllLock(t)
    \/ AllRead(t)
    \/ MixCallFocus(t)
    \/ FocusLock(t)
    \/ FocusRead(t)
    \/ FocusWmctrl(t)
    \/ FocusXdotool(t)
    \/ RaceCallUpdate(t)
    \/ UpdLock(t)
    \/ UpdRemove(t)
    \/ UpdNext(t)
    \/ UpdWiLock(t)
    \/ UpdRead(t)
    \/ MixFfsEnumerate(t)
    \/ FfsLock(t)
    \/ FfsMatch(t)
    \/ UpdCheck(t)
    \/ UpdInsLock(t)
    \/ UpdInsert(t)

MixNext == \E t \in Tasks : MixTaskNext(t)

MixSpec == ConcInit /\ [][MixNext]_vars

\* Fair scheduling: a task whose next step can be taken takes it.
MixFairSpec == MixSpec /\ \A t \in Tasks : WF_vars(MixTaskNext(t))

(***************************************************************************)
(* Direct calls of ProcessTracker::find_terminal_ancestor (AncestorSpec),  *)
(* on process tables as an operating system presents them: process 1 is    *)
(* the root (its parent is 0), process 0 is unknown (Linux) or the kernel, *)
(* its own parent (macOS, Windows), process 9 has exited and left its      *)
(* child 6 behind, and no process but 0 is its own ancestor.               *)
(***************************************************************************)
AncTrees ==
    { (5 :> 4) @@ (4 :> 3) @@ (3 :> 2) @@ (2 :> 1) @@ (1 :> 0) @@ (6 :> 9),
      (5 :> 4) @@ (4 :> 3) @@ (3 :> 2) @@ (2 :> 1) @@ (1 :> 0) @@ (6 :> 9)
          @@ (0 :> 0) }

\* Names of processes: a shell, an allow-listed name, a name that is part
\* of one, and two that contain one without being one.
AncNames ==
    { <<"b", "a", "s", "h">>,
      <<"x", "t", "e", "r", "m">>,
      <<"u", "x", "t", "e", "r", "m">>,
      <<"t", "e", "r", "m">>,
      <<"k", "i", "t", "t", "y", "+">> }

KernelName == <<"k", "e", "r", "n", "e", "l">>

AncPids == {0, 1, 3, 5, 6, 7}
AncDepths == 0..5
\* The first call asks for a session's shell, later ones for any process.
AncFirstPids == {5, 6}

AncArgs ==
    [tree : AncTrees, names : [1..3 -> AncNames], pid : AncPids,
     max_depth : AncDepths]

\* The names of the processes of a call: those drawn for 1..3, the kernel's
\* for 0 and a shell's for the others.
AncNamesOf(a) ==
    [p \in 0..9 |-> IF p \in 1..3 THEN a.names[p]
                    ELSE IF p = 0 THEN KernelName ELSE <<"b", "a", "s", "h">>]

AncInit ==
    /\ TrackerInit
    /\ AppNew
    /\ m_args \in {a \in AncArgs : a.pid \in AncFirstPids}
    /\ m_ret = NoReturn

\* ProcessTracker::find_terminal_ancestor(pid, max_depth)
AFindTerminalAncestor ==
    /\ m_ret = NoReturn
    /\ LET r == find_terminal_ancestor(m_args.tree, AncNamesOf(m_args),
                                       m_args.pid, m_args.max_depth)
       IN  m_ret' = [op |-> "find_terminal_ancestor", result |-> r.result,
                     lookups |-> r.lookups]
    /\ UNCHANGED <<app_vars, session_window_cache, m_args, tracker_vars>>

\* The caller prepares its next call, from another process.
ANextCall ==
    /\ m_ret # NoReturn
    /\ \E p \in AncPids : m_args' = [m_args EXCEPT !.pid = p]
    /\ m_ret' = NoReturn
    /\ UNCHANGED <<app_vars, session_window_cache, tracker_vars>>

AncestorNext == AFindTerminalAncestor \/ ANextCall

AncestorSpec == AncInit /\ [][AncestorNext]_vars

(***************************************************************************)
(* git_monitor.rs: GitMonitor (GitSpec).  Three tasks make one call each;  *)
(* pc, call, local and hist hold, per task, the place in its call, the     *)
(* call, the repository paths a refresh still has to visit and the value   *)
(* returned.  A repository is cached under its path; the status stored     *)
(* with it is never read by the calls modelled and is left out.  The       *)
(* background fetch of a GitHub URL that get_repository_status spawns      *)
(* (147-149) runs as a task of its own that takes no lock while it holds   *)
(* another, and is left out, as is the mutex of github_url_fetches, which  *)
(* clear_cache takes last and holding nothing else.                        *)
(***************************************************************************)
GitTasks == {"t1", "t2", "t3"}

\* tokio::sync::RwLock::read / write: the guard is given at once when the
\* lock allows it and nobody waits, else the task joins the queue.
LockRequest(l, t, mode) ==
    IF mode = "read" /\ l.writer = None /\ l.queue = <<>>
    THEN [l EXCEPT !.readers = @ \cup {t}]
    ELSE IF mode = "write" /\ l.writer = None /\ l.readers = {} /\ l.queue = <<>>
    THEN [l EXCEPT !.writer = Some(t)]
    ELSE [l EXCEPT !.queue = Append(@, [task |-> t, mode |-> mode])]

\* The guards are handed to the waiting tasks in the order of their arrival.
RECURSIVE LockGrant(_)
LockGrant(l) ==
    IF l.queue = <<>> \/ l.writer # None THEN l
    ELSE IF Head(l.queue).mode = "read"
    THEN LockGrant([l EXCEPT !.readers = @ \cup {Head(l.queue).task},
                             !.queue = Tail(@)])
    ELSE IF l.readers = {}
    THEN [l EXCEPT !.writer = Some(Head(l.queue).task), !.queue = Tail(@)]
    ELSE l

\* drop(guard)
LockRelease(l, t) ==
    LockGrant([l EXCEPT !.readers = @ \ {t},
                        !.writer = IF @ = Some(t) THEN None ELSE @])

LockHeldBy(l, t) == t \in l.readers \/ l.writer = Some(t)

\* Path of the repository whose working tree holds the file (find_git_root).
GitRootOf(file_path) == "r"

GitNoHist == [returned |-> FALSE, result |-> None]

\* A fresh monitor, or the monitor once find_repository("f1") has returned
\* the repository.
GitInit ==
    /\ session_window_cache = EmptyCache
    /\ session_window_map = EmptyMap
    /\ map_writer = None
    /\ map_readers = {}
    /\ matcher_writer = None
    /\ m_args = CHOOSE a \in MatcherArgs : TRUE
    /\ m_ret = NoReturn
    /\ power_manager = PowerManagerNew
    /\ log_collector = LogCollectorNew(ServerLogMaxSize)
    /\ git_monitor \in
           {GitMonitorNew,
            [GitMonitorNew EXCEPT !.repository_cache["r"] = Some("r"),
                                  !.file_to_repo_cache["f1"] = Some("r")]}
    /\ pc = [t \in GitTasks |-> "idle"]
    /\ call = [t \in GitTasks |-> NoCall]
    /\ local = [t \in GitTasks |-> <<>>]
    /\ hist = [t \in GitTasks |-> GitNoHist]

git_frame == <<matcher_vars, session_window_map, map_writer, map_readers,
               matcher_writer, power_manager, log_collector>>

GitReturn(t, result) ==
    /\ pc' = [pc EXCEPT ![t] = "idle"]
    /\ hist' = [hist EXCEPT ![t] = [returned |-> TRUE, result |-> result]]

\* A call begins; find_repository validates the path first (46-48).
GitCall(t, c, p) ==
    /\ pc[t] = "idle" /\ call[t] = NoCall
    /\ call' = [call EXCEPT ![t] = c]
    /\ Goto(t, p)

\* GitMonitor::get_cached_repository (34-41), called by itself
GCallGetCached(t) ==
    /\ \E f \in GitFiles :
          GitCall(t, [op |-> "get_cached_repository", file_path |-> f], "gc_file_lock")
    /\ UNCHANGED <<git_frame, git_monitor, local, hist>>

\* GitMonitor::find_repository (44-76)
GCallFind(t) ==
    /\ \E f \in GitFiles :
          GitCall(t, [op |-> "find_repository", file_path |-> f], "find_validate")
    /\ UNCHANGED <<git_frame, git_monitor, local, hist>>

\* 46-48: validate_path
FindValidate(t) ==
    /\ pc[t] = "find_validate"
    /\ \/ Goto(t, "gc_file_lock") /\ UNCHANGED hist
       \/ GitReturn(t, None)
    /\ UNCHANGED <<git_frame, git_monitor, call, local>>

\* 35: self.file_to_repo_cache.read().await
GcFileLock(t) ==
    /\ pc[t] = "gc_file_lock"
    /\ git_monitor' = [git_monitor EXCEPT
                          !.file_to_repo_lock = LockRequest(@, t, "read")]
    /\ Goto(t, "gc_file_read")
    /\ UNCHANGED <<git_frame, call, local, hist>>

\* 36-40: the file is looked up under the read guard; on a hit the guard is
\* kept while self.repository_cache.read().await is made (37).
GcFileRead(t) ==
    /\ pc[t] = "gc_file_read"
    /\ t \in git_monitor.file_to_repo_lock.readers
    /\ IF IsSome(git_monitor.file_to_repo_cache[call[t].file_path])
       THEN /\ git_monitor' = [git_monitor EXCEPT
                                  !.repository_lock = LockRequest(@, t, "read")]
            /\ Goto(t, "gc_repo_read")
            /\ UNCHANGED hist
       ELSE /\ git_monitor' = [git_monitor EXCEPT
                                  !.file_to_repo_lock = LockRelease(@, t)]
            /\ IF call[t].op = "find_repository"
               THEN Goto(t, "find_root") /\ UNCHANGED hist
               ELSE GitReturn(t, None)
    /\ UNCHANGED <<git_frame, call, local>>

\* 38: repos.get(repo_path).cloned(); both guards are dropped.  51-53:
\* find_repository returns what the cache had.
GcRepoRead(t) ==
    /\ pc[t] = "gc_repo_read"
    /\ t \in git_monitor.repository_lock.readers
    /\ LET repo_path == Unwrap(git_monitor.file_to_repo_cache[call[t].file_path])
           cached == git_monitor.repository_cache[repo_path]
       IN  /\ git_monitor' = [git_monitor EXCEPT
                                 !.repository_lock = LockRelease(@, t),
                                 !.file_to_repo_lock = LockRelease(@, t)]
           /\ IF call[t].op = "find_repository" /\ cached = None
              THEN Goto(t, "find_root") /\ UNCHANGED hist
              ELSE GitReturn(t, cached)
    /\ UNCHANGED <<git_frame, call, local>>

\* 56: find_git_root(file_path)?  60: self.repository_cache.read().await
FindRoot(t) ==
    /\ pc[t] = "find_root"
    /\ \/ /\ git_monitor' = [git_monitor EXCEPT
                                 !.repository_lock = LockRequest(@, t, "read")]
          /\ Goto(t, "find_repo_read")
          /\ UNCHANGED hist
       \/ GitReturn(t, None) /\ UNCHANGED git_monitor
    /\ UNCHANGED <<git_frame, call, local>>

\* 61-63: under the read guard of repository_cache; when the repository is
\* cached the guard is kept while self.file_to_repo_cache.write().await is
\* made (63).
FindRepoRead(t) ==
    /\ pc[t] = "find_repo_read"
    /\ t \in git_monitor.repository_lock.readers
    /\ IF IsSome(git_monitor.repository_cache[GitRootOf(call[t].file_path)])
       THEN /\ git_monitor' = [git_monitor EXCEPT
                                  !.file_to_repo_lock = LockRequest(@, t, "write")]
            /\ Goto(t, "find_file_write")
       ELSE /\ git_monitor' = [git_monitor EXCEPT
                                  !.repository_lock = LockRelease(@, t)]
            /\ Goto(t, "find_status")
    /\ UNCHANGED <<git_frame, call, local, hist>>

\* 64-65: the file is mapped to the repository; both guards are dropped.
FindFileWrite(t) ==
    /\ pc[t] = "find_file_write"
    /\ git_monitor.file_to_repo_lock.writer = Some(t)
    /\ LET repo_path == GitRootOf(call[t].file_path)
       IN  /\ git_monitor' = [git_monitor EXCEPT
                                 !.file_to_repo_cache[call[t].file_path] = Some(repo_path),
                                 !.file_to_repo_lock = LockRelease(@, t),
                                 !.repository_lock = LockRelease(@, t)]
           /\ GitReturn(t, git_monitor.repository_cache[repo_path])
    /\ UNCHANGED <<git_frame, call, local>>

\* 70, 136: get_basic_git_status(repo_path)?  139: github_url_cache.read()
FindStatus(t) ==
    /\ pc[t] = "find_status"
    /\ \/ /\ git_monitor' = [git_monitor EXCEPT
                                 !.github_url_lock = LockRequest(@, t, "read")]
          /\ Goto(t, "find_github_read")
          /\ UNCHANGED hist
       \/ GitReturn(t, None) /\ UNCHANGED git_monitor
    /\ UNCHANGED <<git_frame, call, local>>

\* 140-152: the URL is read and the guard dropped.  73, 276-278:
\* cache_repository asks for the write guard of repository_cache.
FindGithubRead(t) ==
    /\ pc[t] = "find_github_read"
    /\ t \in git_monitor.github_url_lock.readers
    /\ git_monitor' = [git_monitor EXCEPT
                          !.github_url_lock = LockRelease(@, t),
                          !.repository_lock = LockRequest(@, t, "write")]
    /\ Goto(t, "cache_repo_write")
    /\ UNCHANGED <<git_frame, call, local, hist>>

\* 279: .insert(repository.path, repository); 282-286: the file path
\* differs from the repository path, file_to_repo_cache.write().await
CacheRepoWrite(t) ==
    /\ pc[t] = "cache_repo_write"
    /\ git_monitor.repository_lock.writer = Some(t)
    /\ LET repo_path == GitRootOf(call[t].file_path)
       IN  git_monitor' = [git_monitor EXCEPT
                             !.repository_cache[repo_path] = Some(repo_path),
                             !.repository_lock = LockRelease(@, t),
                             !.file_to_repo_lock = LockRequest(@, t, "write")]
    /\ Goto(t, "cache_file_write")
    /\ UNCHANGED <<git_frame, call, local, hist>>

\* 287: .insert(file_path, repository.path); 75: Some(repository)
CacheFileWrite(t) ==
    /\ pc[t] = "cache_file_write"
    /\ git_monitor.file_to_repo_lock.writer = Some(t)
    /\ LET repo_path == GitRootOf(call[t].file_path)
       IN  git_monitor' = [git_monitor EXCEPT
                             !.file_to_repo_cache[call[t].file_path] = Some(repo_path),
                             !.file_to_repo_lock = LockRelease(@, t)]
    /\ GitReturn(t, Some(GitRootOf(call[t].file_path)))
    /\ UNCHANGED <<git_frame, call, local>>

\* GitMonitor::clear_cache (79-84); 80: self.repository_cache.write().await
GCallClear(t) ==
    /\ GitCall(t, [op |-> "clear_cache"], "clear_repo")
    /\ git_monitor' = [git_monitor EXCEPT
                          !.repository_lock = LockRequest(@, t, "write")]
    /\ UNCHANGED <<git_frame, local, hist>>

\* 80: .clear(); 81: self.file_to_repo_cache.write().await
ClearRepo(t) ==
    /\ pc[t] = "clear_repo"
    /\ git_monitor.repository_lock.writer = Some(t)
    /\ git_monitor' = [git_monitor EXCEPT
                          !.repository_cache = [r \in GitRepos |-> None],
                          !.repository_lock = LockRelease(@, t),
                          !.file_to_repo_lock = LockRequest(@, t, "write")]
    /\ Goto(t, "clear_file")
    /\ UNCHANGED <<git_frame, call, local, hist>>

\* 81: .clear(); 82: self.github_url_cache.write().await
ClearFile(t) ==
    /\ pc[t] = "clear_file"
    /\ git_monitor.file_to_repo_lock.writer = Some(t)
    /\ git_monitor' = [git_monitor EXCEPT
                          !.file_to_repo_cache = [f \in GitFiles |-> None],
                          !.file_to_repo_lock = LockRelease(@, t),
                          !.github_url_lock = LockRequest(@, t, "write")]
    /\ Goto(t, "clear_github")
    /\ UNCHANGED <<git_frame, call, local, hist>>

\* 82-83: .clear()
ClearGithub(t) ==
    /\ pc[t] = "clear_github"
    /\ git_monitor.github_url_lock.writer = Some(t)
    /\ git_monitor' = [git_monitor EXCEPT !.github_url_lock = LockRelease(@, t)]
    /\ GitReturn(t, None)
    /\ UNCHANGED <<git_frame, call, local>>

\* GitMonitor::refresh_all_cached (251-272); 257: cache.read().await
GCallRefresh(t) ==
    /\ GitCall(t, [op |-> "refresh_all_cached"], "refresh_keys")
    /\ git_monitor' = [git_monitor EXCEPT
                          !.repository_lock = LockRequest(@, t, "read")]
    /\ UNCHANGED <<git_frame, local, hist>>

\* 258: repos.keys().cloned().collect()
RefreshKeys(t) ==
    /\ pc[t] = "refresh_keys"
    /\ t \in git_monitor.repository_lock.readers
    /\ local' = [local EXCEPT ![t] =
                    IF IsSome(git_monitor.repository_cache["r"]) THEN <<"r">> ELSE <<>>]
    /\ git_monitor' = [git_monitor EXCEPT !.repository_lock = LockRelease(@, t)]
    /\ Goto(t, "refresh_next")
    /\ UNCHANGED <<git_frame, call, hist>>

\* 261-264: for repo_path in repo_paths; get_basic_git_status(&repo_path);
\* github_cache.read().await
RefreshNext(t) ==
    /\ pc[t] = "refresh_next"
    /\ IF local[t] = <<>>
       THEN GitReturn(t, None) /\ UNCHANGED <<git_monitor, local>>
       ELSE \/ /\ git_monitor' = [git_monitor EXCEPT
                                     !.github_url_lock = LockRequest(@, t, "read")]
               /\ Goto(t, "refresh_github")
               /\ UNCHANGED <<local, hist>>
            \/ /\ local' = [local EXCEPT ![t] = Tail(@)]
               /\ UNCHANGED <<git_monitor, pc, hist>>
    /\ UNCHANGED <<git_frame, call>>

\* 265-269: the URL is read; the read guard of github_cache is kept while
\* cache.write().await is made.
RefreshGithub(t) ==
    /\ pc[t] = "refresh_github"
    /\ t \in git_monitor.github_url_lock.readers
    /\ git_monitor' = [git_monitor EXCEPT
                          !.repository_lock = LockRequest(@, t, "write")]
    /\ Goto(t, "refresh_write")
    /\ UNCHANGED <<git_frame, call, local, hist>>

\* 269: .insert(repo_path, fresh); both guards are dropped.
RefreshWrite(t) ==
    /\ pc[t] = "refresh_write"
    /\ git_monitor.repository_lock.writer = Some(t)
    /\ git_monitor' = [git_monitor EXCEPT
                          !.repository_cache[Head(local[t])] = Some(Head(local[t])),
                          !.repository_lock = LockRelease(@, t),
                          !.github_url_lock = LockRelease(@, t)]
    /\ local' = [local EXCEPT ![t] = Tail(@)]
    /\ Goto(t, "refresh_next")
    /\ UNCHANGED <<git_frame, call, hist>>

GitTaskNext(t) ==
    \/ GCallGetCached(t)
    \/ GCallFind(t)
    \/ FindValidate(t)
    \/ GcFileLock(t)
    \/ GcFileRead(t)
    \/ GcRepoRead(t)
    \/ FindRoot(t)
    \/ FindRepoRead(t)
    \/ FindFileWrite(t)
    \/ FindStatus(t)
    \/ FindGithubRead(t)
    \/ CacheRepoWrite(t)
    \/ CacheFileWrite(t)
    \/ GCallClear(t)
    \/ ClearRepo(t)
    \/ ClearFile(t)
    \/ ClearGithub(t)
    \/ GCallRefresh(t)
    \/ RefreshKeys(t)
    \/ RefreshNext(t)
    \/ RefreshGithub(t)
    \/ RefreshWrite(t)

GitNext == \E t \in GitTasks : GitTaskNext(t)

GitSpec == GitInit /\ [][GitNext]_vars

\* Fair scheduling: a task whose next step can be taken takes it.
GitFairSpec == GitSpec /\ \A t \in GitTasks : WF_vars(GitTaskNext(t))

(***************************************************************************)
(* power_manager.rs: PowerManager on macOS (PowerSpec).  Two threads call  *)
(* prevent_sleep and allow_sleep again and again; every load and store of  *)
(* the flag, every lock of the mutex of assertion_id and every call of the *)
(* power-management API is a step.  The OS side is the set of the ids of   *)
(* the assertions created and not released (outstanding).                  *)
(***************************************************************************)
\* Assertions the model lets the manager create.
MaxAssertions == 3

PowerInit ==
    /\ TrackerInit
    /\ m_args = CHOOSE a \in MatcherArgs : TRUE
    /\ m_ret = NoReturn
    /\ git_monitor = GitMonitorNew
    /\ log_collector = LogCollectorNew(ServerLogMaxSize)
    /\ power_manager = PowerManagerNew

power_frame == <<matcher_vars, session_window_map, map_writer, map_readers,
                 matcher_writer, git_monitor, log_collector>>

\* PowerManager::prevent_sleep (31-55)
PCallPrevent(t) ==
    /\ power_manager.created
           + Cardinality({u \in Tasks : pc[u] \in {"prev_load", "prev_create"}})
       < MaxAssertions
    /\ Begin(t, [op |-> "prevent_sleep"], NoLocal, "prev_load")
    /\ UNCHANGED <<power_frame, power_manager>>

\* 32-35: if self.is_prevented.load(Relaxed) { return Ok(()) }
PrevLoad(t) ==
    /\ pc[t] = "prev_load"
    /\ IF power_manager.is_prevented
       THEN Return(t, hist[t], Ok)
       ELSE Goto(t, "prev_create") /\ UNCHANGED <<local, hist>>
    /\ UNCHANGED <<power_frame, power_manager, call>>

\* 110-125: IOPMAssertionCreateWithName; on failure the error is returned
\* through ? at 39.
PrevCreate(t) ==
    /\ pc[t] = "prev_create"
    /\ \/ LET id == power_manager.created + 1
          IN  /\ power_manager' = [power_manager EXCEPT
                                     !.created = id,
                                     !.outstanding = @ \cup {id}]
              /\ local' = [local EXCEPT ![t].index = id]
              /\ Goto(t, "prev_store_id")
              /\ UNCHANGED hist
       \/ /\ Return(t, hist[t], Err("Failed to create power assertion"))
          /\ UNCHANGED power_manager
    /\ UNCHANGED <<power_frame, call>>

\* 120-121: *self.assertion_id.lock().unwrap() = Some(assertion_id)
PrevStoreId(t) ==
    /\ pc[t] = "prev_store_id"
    /\ power_manager.guard = None
    /\ power_manager' = [power_manager EXCEPT !.assertion_id = Some(local[t].index)]
    /\ Goto(t, "prev_store_flag")
    /\ UNCHANGED <<power_frame, call, local, hist>>

\* 52-54: self.is_prevented.store(true, Relaxed); Ok(())
PrevStoreFlag(t) ==
    /\ pc[t] = "prev_store_flag"
    /\ power_manager' = [power_manager EXCEPT !.is_prevented = TRUE]
    /\ Return(t, hist[t], Ok)
    /\ UNCHANGED <<power_frame, call>>

\* PowerManager::allow_sleep (58-82)
PCallAllow(t) ==
    /\ Begin(t, [op |-> "allow_sleep"], NoLocal, "allow_load")
    /\ UNCHANGED <<power_frame, power_manager>>

\* 59-62: if !self.is_prevented.load(Relaxed) { return Ok(()) }
AllowLoad(t) ==
    /\ pc[t] = "allow_load"
    /\ IF ~power_manager.is_prevented
       THEN Return(t, hist[t], Ok)
       ELSE Goto(t, "allow_take") /\ UNCHANGED <<local, hist>>
    /\ UNCHANGED <<power_frame, power_manager, call>>

\* 138-139, 147-149: the mutex is locked and the stored id taken out; with
\* no id stored the guard is dropped and Ok(()) returned to allow_sleep.
AllowTake(t) ==
    /\ pc[t] = "allow_take"
    /\ power_manager.guard = None
    /\ IF IsSome(power_manager.assertion_id)
       THEN /\ power_manager' = [power_manager EXCEPT !.assertion_id = None,
                                                      !.guard = Some(t)]
            /\ local' = [local EXCEPT ![t].index = Unwrap(power_manager.assertion_id)]
            /\ Goto(t, "allow_release")
       ELSE /\ Goto(t, "allow_store_flag")
            /\ UNCHANGED <<power_manager, local>>
    /\ UNCHANGED <<power_frame, call, hist>>

\* 140-146: IOPMAssertionRelease(assertion_id) under the guard; on failure
\* the assertion stays and the error is returned through ? at 66.
AllowRelease(t) ==
    /\ pc[t] = "allow_release"
    /\ power_manager.guard = Some(t)
    /\ \/ /\ power_manager' = [power_manager EXCEPT
                                 !.outstanding = @ \ {local[t].index},
                                 !.guard = None]
          /\ Goto(t, "allow_store_flag")
          /\ UNCHANGED <<local, hist>>
       \/ /\ power_manager' = [power_manager EXCEPT !.guard = None]
          /\ Return(t, hist[t], Err("Failed to release power assertion"))
    /\ UNCHANGED <<power_frame, call>>

\* 79-81: self.is_prevented.store(false, Relaxed); Ok(())
AllowStoreFlag(t) ==
    /\ pc[t] = "allow_store_flag"
    /\ power_manager' = [power_manager EXCEPT !.is_prevented = FALSE]
    /\ Return(t, hist[t], Ok)
    /\ UNCHANGED <<power_frame, call>>

\* PowerManager::is_sleep_prevented (85-87)
is_sleep_prevented == power_manager.is_prevented

PowerTaskNext(t) ==
    \/ PCallPrevent(t)
    \/ PrevLoad(t)
    \/ PrevCreate(t)
    \/ PrevStoreId(t)
    \/ PrevStoreFlag(t)
    \/ PCallAllow(t)
    \/ AllowLoad(t)
    \/ AllowTake(t)
    \/ AllowRelease(t)
    \/ AllowStoreFlag(t)

PowerNext == \E t \in Tasks : PowerTaskNext(t)

PowerSpec == PowerInit /\ [][PowerNext]_vars

(***************************************************************************)
(* log_collector.rs: LogCollector (LogSpec).  Two tasks call add_log,      *)
(* get_logs and clear again and again on a collector of max_size 1 or 2.   *)
(* A write or read guard of the buffer is held within one step only, so    *)
(* the step that takes it is the step that uses and drops it.              *)
(* set_app_handle is called once before the collector is used and is left  *)
(* out; the read guard of app_handle is then never contended.              *)
(***************************************************************************)
\* add_log calls the model lets the tasks make.
MaxLogs == 3
LogSizes == {1, 2}

LogInit ==
    /\ TrackerInit
    /\ m_args = CHOOSE a \in MatcherArgs : TRUE
    /\ m_ret = NoReturn
    /\ git_monitor = GitMonitorNew
    /\ power_manager = PowerManagerNew
    /\ \E max_size \in LogSizes : log_collector = LogCollectorNew(max_size)

log_frame == <<matcher_vars, session_window_map, map_writer, map_readers,
               matcher_writer, git_monitor, power_manager>>

\* LogCollector::add_log (33-52); 34-39: the entry is stamped and built.
LCallAdd(t) ==
    /\ log_collector.now < MaxLogs
    /\ \E level \in {"info", "error"} :
          Begin(t, [op |-> "add_log",
                    entry |-> [timestamp |-> log_collector.now + 1,
                               level |-> level, message |-> "m"]],
                NoLocal, "add_emit")
    /\ log_collector' = [log_collector EXCEPT !.now = @ + 1]
    /\ UNCHANGED log_frame

\* 42-44: self.app_handle.read().await; the entry is emitted to the
\* frontend when there is one.
AddEmit(t) ==
    /\ pc[t] = "add_emit"
    /\ Goto(t, "add_push")
    /\ UNCHANGED <<log_frame, log_collector, call, local, hist>>

\* A push that makes room by dropping the newest entry.
AddPush_DropNewest(t) ==
    /\ pc[t] = "add_push"
    /\ LET buffer == log_collector.buffer
           room == IF Len(buffer) >= log_collector.max_size /\ buffer # <<>>
                   THEN SubSeq(buffer, 1, Len(buffer) - 1) ELSE buffer
       IN  log_collector' = [log_collector EXCEPT
                               !.buffer = Append(room, call[t].entry),
                               !.added = Append(@, call[t].entry)]
    /\ Return(t, hist[t], None)
    /\ UNCHANGED <<log_frame, call>>

\* 47-51: under the write guard: pop_front() when the buffer is full, then
\* push_back(entry).
AddPush(t) ==
    /\ pc[t] = "add_push"
    /\ LET buffer == log_collector.buffer
           room == IF Len(buffer) >= log_collector.max_size /\ buffer # <<>>
                   THEN Tail(buffer) ELSE buffer
       IN  log_collector' = [log_collector EXCEPT
                               !.buffer = Append(room, call[t].entry),
                               !.added = Append(@, call[t].entry)]
    /\ Return(t, hist[t], None)
    /\ UNCHANGED <<log_frame, call>>

\* LogCollector::get_logs (54-56)
LCallGetLogs(t) ==
    /\ Begin(t, [op |-> "get_logs"], NoLocal, "get_read")
    /\ UNCHANGED <<log_frame, log_collector>>

\* 55: self.buffer.read().await.iter().cloned().collect()
GetRead(t) ==
    /\ pc[t] = "get_read"
    /\ Return(t, hist[t], log_collector.buffer)
    /\ UNCHANGED <<log_frame, log_collector, call>>

\* LogCollector::clear (58-60)
LCallClear(t) ==
    /\ Begin(t, [op |-> "clear"], NoLocal, "clear_write")
    /\ UNCHANGED <<log_frame, log_collector>>

\* 59: self.buffer.write().await.clear()
ClearWrite(t) ==
    /\ pc[t] = "clear_write"
    /\ log_collector' = [log_collector EXCEPT !.buffer = <<>>, !.added = <<>>]
    /\ Return(t, hist[t], None)
    /\ UNCHANGED <<log_frame, call>>

LogTaskNext(t) ==
    \/ LCallAdd(t)
    \/ AddEmit(t)
    \/ AddPush(t)
    \/ LCallGetLogs(t)
    \/ GetRead(t)
    \/ LCallClear(t)
    \/ ClearWrite(t)

LogNext == \E t \in Tasks : LogTaskNext(t)

LogSpec == LogInit /\ [][LogNext]_vars

(***************************************************************************)
(* window_enumerator.rs: extract_window_id on its own (RefSpec).  The tab  *)
(* references are put together from a lead, an optional "window id ", a    *)
(* run of characters and a tail; the first one is a lead alone.            *)
(***************************************************************************)
RefLeads == {<<>>, <<"t", "a", "b", " ", "i", "d", " ", "3", " ", "o", "f", " ">>, <<"w", "i", "n", "d", "o", "w", " ", "i", "d", " ", "x", " ">>,
             <<"W", "i", "n", "d", "o", "w", " ", "i", "d", " ", "7", " ">>, <<"w", "i", "n", "d", "o", "w", " ", "i", "d">>}
RefMarks == {<<>>, WindowIdPrefix}
RefRuns == {<<>>, <<"7">>, <<"4", "2">>, <<"0", "0", "7">>, <<"sup2">>,
            <<"4", "sup2">>, <<"9", "9", "9", "9", "9", "9", "9", "9", "9", "9", "9", "9", "9", "9", "9", "9", "9", "9", "9", "9">>}
RefTails == {<<>>, <<" ", "o", "f", " ", "x">>, <<"x">>, <<"sup2">>,
             <<" ", "w", "i", "n", "d", "o", "w", " ", "i", "d", " ", "9">>}
RefStrings ==
    {lead \o mark \o run \o tail :
        lead \in RefLeads, mark \in RefMarks, run \in RefRuns,
        tail \in RefTails}

RefInit ==
    /\ TrackerInit
    /\ AppNew
    /\ \E ref \in RefLeads : m_args = [tab_reference |-> ref]
    /\ m_ret = NoReturn

\* WindowEnumerator::extract_window_id(tab_reference)
RExtractWindowId ==
    /\ m_ret = NoReturn
    /\ m_ret' = [op |-> "extract_window_id",
                 result |-> extract_window_id(m_args.tab_reference)]
    /\ UNCHANGED <<app_vars, session_window_cache, m_args, tracker_vars>>

\* The caller prepares its next call, with another reference.
RNextCall ==
    /\ m_ret # NoReturn
    /\ \E ref \in RefStrings : m_args' = [tab_reference |-> ref]
    /\ m_ret' = NoReturn
    /\ UNCHANGED <<app_vars, session_window_cache, tracker_vars>>

RefNext == RExtractWindowId \/ RNextCall

RefSpec == RefInit /\ [][RefNext]_vars

(***************************************************************************)
(* Claims                                                                  *)
(***************************************************************************)
\* The last direct call was made with a hint whose id is not in the snapshot.
StaleHint ==
    /\ m_ret.op \in FindOps
    /\ IsSome(m_ret.hint)
    /\ \A w \in Elements(m_args.windows) : w.window_id # Unwrap(m_ret.hint)

\* What the last direct call returns when the session has no hint at all.
ResultWithoutHint ==
    LET cold == [session_window_cache EXCEPT ![m_args.session_id] = None]
    IN  IF m_ret.op = "find_window"
        THEN MatcherFindWindow(cold, ProcessTable, m_args.terminal_app,
                 m_args.session_id, ArgSessionInfo(m_args), m_args.tab_reference,
                 m_args.tab_id, m_args.windows).window
        ELSE MatcherFindWindowForSession(cold, ProcessTable, m_args.session_id,
                 Unwrap(ArgSessionInfo(m_args)), m_args.windows).window

\* C1: every window returned by find_window or find_window_for_session is an
\* element of the snapshot passed to that call; with a cached id that is not
\* in the snapshot the call never returns a window with that id and returns
\* what the remaining strategies give on the current snapshot.
C1_CacheValidity ==
    m_ret.op \in FindOps =>
        /\ IsSome(m_ret.window) => Unwrap(m_ret.window) \in Elements(m_args.windows)
        /\ StaleHint =>
              /\ IsSome(m_ret.window) =>
                    Unwrap(m_ret.window).window_id # Unwrap(m_ret.hint)
              /\ m_ret.window = ResultWithoutHint

\* A call with a stale hint that fell through to another window of the
\* current snapshot.
C1_Witness ==
    /\ StaleHint
    /\ IsSome(m_ret.window)
    /\ session_window_cache[m_args.session_id] # m_ret.hint

------------------------------------------------------------------------------
\* The last tracker call of task t is a register_window call.
IsRegister(t) == call[t].op = "register_window"

\* The identity the caller supplied is the kind the terminal application
\* uses: a tab reference for "Terminal", a tab id for "iTerm2".
AppropriateIdentity(t) ==
    \/ (call[t].terminal_app = "Terminal" /\ call[t].tab_reference # None)
    \/ (call[t].terminal_app = "iTerm2" /\ call[t].tab_id # None)

Offsets(t) == [i \in 1..Len(hist[t].attempts) |-> hist[t].attempts[i].at]

AllFailed(t) == \A i \in 1..Len(hist[t].outcomes) : hist[t].outcomes[i] = None

Schedule == <<500, 1500, 3500, 6500>>

IsPrefix(p, q) == Len(p) <= Len(q) /\ p = SubSeq(q, 1, Len(p))

\* C2: a register_window call without an explicit identity whose attempts all
\* fail makes exactly four attempts, after 0.5, 1.5, 3.5 and 6.5 seconds of
\* sleep in total, inserts nothing and returns with the session's entry as it
\* was (unmapped if it was unmapped).
C2_FourAttemptSchedule ==
    \A t \in Tasks :
        (IsRegister(t) /\ ~AppropriateIdentity(t) /\ hist[t].returned /\ AllFailed(t))
        => /\ Offsets(t) = Schedule
           /\ Len(hist[t].outcomes) = 4
           /\ hist[t].elapsed = 6500
           /\ hist[t].inserts = <<>>
           /\ session_window_map[call[t].session_id]
                 = hist[t].map_at_call[call[t].session_id]

\* A register_window call for an unmapped session gave up after four misses.
C2_Witness ==
    \E t \in Tasks :
        /\ IsRegister(t) /\ ~AppropriateIdentity(t) /\ hist[t].returned
        /\ AllFailed(t) /\ Len(hist[t].outcomes) = 4
        /\ session_window_map[call[t].session_id] = None

\* C3: with the identity appropriate to the terminal application the call
\* sleeps 500 ms, makes one attempt, inserts iff it matched, and returns; in
\* every other case the attempts follow the four-step schedule and the call
\* returns only after a match or after the fourth attempt.
C3_SingleAttemptIffExplicit ==
    \A t \in Tasks :
        IsRegister(t) =>
            IF AppropriateIdentity(t)
            THEN /\ IsPrefix(Offsets(t), <<500>>)
                 /\ hist[t].elapsed \in {0, 500}
                 /\ hist[t].returned =>
                       /\ Offsets(t) = <<500>>
                       /\ Len(hist[t].outcomes) = 1
                       /\ (hist[t].inserts # <<>>) <=> (hist[t].outcomes[1] # None)
            ELSE /\ IsPrefix(Offsets(t), Schedule)
                 /\ hist[t].returned =>
                       /\ Len(hist[t].outcomes) = Len(hist[t].attempts)
                       /\ Len(hist[t].outcomes) >= 1
                       /\ \/ hist[t].outcomes[Len(hist[t].outcomes)] # None
                          \/ Len(hist[t].outcomes) = 4

\* A call with a tab reference for "Terminal" returned after its single
\* attempt, which did not match.
C3_Witness ==
    \E t \in Tasks :
        /\ IsRegister(t) /\ AppropriateIdentity(t) /\ hist[t].returned
        /\ call[t].terminal_app = "Terminal"
        /\ hist[t].outcomes = <<None>>

\* C4: in the retry schedule the first attempt that matches is the last one:
\* no enumeration and no match follows it, and the call returns having
\* inserted exactly that window under its session id; a call without a match
\* inserts nothing.
C4_StopAtFirstSuccess ==
    \A t \in Tasks :
        (IsRegister(t) /\ ~AppropriateIdentity(t)) =>
            LET n == Len(hist[t].outcomes)
            IN  /\ \A i \in 1..(n - 1) : hist[t].outcomes[i] = None
                /\ Len(hist[t].attempts) \in {n, n + 1}
                /\ (n > 0 /\ hist[t].outcomes[n] # None) =>
                       Len(hist[t].attempts) = n
                /\ Len(hist[t].inserts) <= 1
                /\ hist[t].inserts # <<>> =>
                       /\ hist[t].returned
                       /\ hist[t].outcomes[n] # None
                /\ hist[t].returned =>
                       IF hist[t].outcomes[n] # None
                       THEN /\ hist[t].inserts =
                                  <<[session_id |-> call[t].session_id,
                                     window_info |-> Unwrap(hist[t].outcomes[n])]>>
                            /\ session_window_map[call[t].session_id]
                                  = hist[t].outcomes[n]
                       ELSE hist[t].inserts = <<>>

\* A call in the retry schedule matched at its third attempt and returned.
C4_Witness ==
    \E t \in Tasks :
        /\ IsRegister(t) /\ ~AppropriateIdentity(t) /\ hist[t].returned
        /\ Len(hist[t].outcomes) = 3
        /\ hist[t].outcomes[3] # None
        /\ Len(hist[t].inserts) = 1

RegisterPcs ==
    {"reg_sleep", "fw_enum", "fw_lock", "fw_match", "reg_check", "reg_lock",
     "reg_insert"}

\* Steps a register_window call at most still has to take.
RegisterMeasure(t) ==
    IF pc[t] \notin RegisterPcs THEN 0
    ELSE (4 - local[t].index) * 7 +
         (CASE pc[t] = "reg_sleep" -> 7 [] pc[t] = "fw_enum" -> 6
            [] pc[t] = "fw_lock" -> 5 [] pc[t] = "fw_match" -> 4
            [] pc[t] = "reg_check" -> 3 [] pc[t] = "reg_lock" -> 2
            [] pc[t] = "reg_insert" -> 1)

\* The next step of a register_window call that is under way can be taken
\* (the match step needs nothing but the matcher guard its task holds).
RegisterCanStep(t) ==
    IF pc[t] = "fw_match" THEN matcher_writer = Some(t)
    ELSE ENABLED (RegSleep(t) \/ FwEnumerate(t) \/ FwLock(t)
                  \/ RegCheck(t) \/ RegLock(t) \/ RegInsert(t))

C5_State ==
    \A t \in Tasks :
        IsRegister(t) =>
            /\ Len(hist[t].attempts) <= (IF AppropriateIdentity(t) THEN 1 ELSE 4)
            /\ pc[t] \in RegisterPcs \cup {"idle"}
            /\ pc[t] \in RegisterPcs => RegisterCanStep(t)
            /\ hist[t].returned <=> pc[t] = "idle"
            /\ hist[t].returned => hist[t].result = None
            /\ (hist[t].returned /\ AllFailed(t)) =>
                   session_window_map = hist[t].map_at_call

C5_Step ==
    \A t \in Tasks :
        (pc[t] \in RegisterPcs /\ <<pc[t], local[t], hist[t]>>' # <<pc[t], local[t], hist[t]>>)
        => RegisterMeasure(t)' < RegisterMeasure(t)

\* C5: every register_window call terminates without an error: it is never
\* blocked, each of its steps brings it closer to its return, it makes at
\* most four attempts (one with an explicit identity) and returns no error
\* value; when all attempts failed the map is as it was at the call.
C5_RegisterTerminates == []C5_State /\ [][C5_Step]_vars

\* A call with an explicit identity returned without a match while another
\* session was tracked.
C5_Witness ==
    \E t \in Tasks :
        /\ IsRegister(t) /\ AppropriateIdentity(t) /\ hist[t].returned
        /\ AllFailed(t)
        /\ \E s \in Sessions : session_window_map[s] # None

------------------------------------------------------------------------------
IsUpdate(t) == call[t].op = "update_from_sessions"
LiveSet(t) == Elements(call[t].sessions)

\* C6: update_from_sessions(live), run on its own, leaves no mapping of a
\* session that is not in live and leaves every mapping of a live session
\* that was tracked before exactly as it was.
C6_UpdateReconciles ==
    \A t \in Tasks :
        (IsUpdate(t) /\ hist[t].returned) =>
            \A s \in Sessions :
                /\ s \notin LiveSet(t) => session_window_map[s] = None
                /\ (s \in LiveSet(t) /\ hist[t].map_at_call[s] # None) =>
                       session_window_map[s] = hist[t].map_at_call[s]

\* The map {a: W1, b: W2} reconciled against live = [a] is {a: W1}.
C6_Witness ==
    \E t \in Tasks :
        /\ IsUpdate(t) /\ hist[t].returned
        /\ call[t].sessions = <<"a">>
        /\ hist[t].map_at_call["a"] # None
        /\ hist[t].map_at_call["b"] # None
        /\ session_window_map = [hist[t].map_at_call EXCEPT !["b"] = None]

\* The probes of an update_from_sessions call: session and window found.
Probes(t) ==
    [i \in 1..Len(hist[t].outcomes) |->
        [session_id |-> hist[t].attempts[i].session_id,
         found |-> hist[t].outcomes[i]]]

\* C7: update_from_sessions probes the live sessions that have no mapping,
\* each once, in order, without sleeping, and no other session; it inserts
\* exactly the windows its probes returned.
C7_OneProbePerUnmappedSession ==
    \A t \in Tasks :
        IsUpdate(t) =>
            LET unmapped == SelectSeq(call[t].sessions,
                                LAMBDA s : hist[t].map_at_call[s] = None)
                probed   == [i \in 1..Len(hist[t].attempts) |->
                                hist[t].attempts[i].session_id]
                hits     == SelectSeq(Probes(t), LAMBDA p : p.found # None)
            IN  /\ hist[t].elapsed = 0
                /\ IsPrefix(probed, unmapped)
                /\ Len(hist[t].inserts) <= Len(hits)
                /\ hist[t].returned =>
                       /\ probed = unmapped
                       /\ Len(hist[t].outcomes) = Len(hist[t].attempts)
                       /\ hist[t].inserts =
                              [i \in 1..Len(hits) |->
                                  [session_id |-> hits[i].session_id,
                                   window_info |-> Unwrap(hits[i].found)]]
                       /\ \A i \in 1..Len(probed) :
                              session_window_map[probed[i]] = hist[t].outcomes[i]

\* A reconciliation probed two unmapped live sessions and found a window
\* for one of them only.
C7_Witness ==
    \E t \in Tasks :
        /\ IsUpdate(t) /\ hist[t].returned
        /\ Len(hist[t].attempts) = 2
        /\ Len(hist[t].inserts) = 1

IsFocus(t) == call[t].op = "focus_window"

\* C8: focus_window for a session without an entry returns the error
\* "No window registered for session: <id>", dispatches no activation call
\* and leaves the map unchanged.
C8_FocusUnregistered ==
    \A t \in Tasks :
        (IsFocus(t) /\ hist[t].map_at_call[call[t].session_id] = None) =>
            /\ hist[t].activations = <<>>
            /\ session_window_map = hist[t].map_at_call
            /\ hist[t].returned =>
                  hist[t].result =
                      [ok |-> FALSE,
                       error |-> IF call[t].session_id = "a"
                                 THEN "No window registered for session: a"
                                 ELSE "No window registered for session: b"]

\* focus_window failed for an untracked session while another was tracked.
C8_Witness ==
    \E t \in Tasks :
        /\ IsFocus(t) /\ hist[t].returned
        /\ hist[t].map_at_call[call[t].session_id] = None
        /\ \E s \in Sessions : session_window_map[s] # None

LastActivation(t) == hist[t].activations[Len(hist[t].activations)]

IsUnregister(t) == call[t].op = "unregister_window"

\* C10: unregister_window(s) leaves s without a mapping and every other
\* session's mapping as it was; it changes nothing when s had no mapping, in
\* particular when it is called a second time in a row.
C10_UnregisterIdempotent ==
    \A t \in Tasks :
        (IsUnregister(t) /\ hist[t].returned) =>
            /\ session_window_map[call[t].session_id] = None
            /\ \A s \in Sessions \ {call[t].session_id} :
                  session_window_map[s] = hist[t].map_at_call[s]
            /\ hist[t].map_at_call[call[t].session_id] = None =>
                  session_window_map = hist[t].map_at_call
            /\ hist[t].again => session_window_map = hist[t].map_at_call

\* unregister_window was called a second time in a row while the other
\* session was tracked.
C10_Witness ==
    \E t \in Tasks :
        /\ IsUnregister(t) /\ hist[t].returned /\ hist[t].again
        /\ \E s \in Sessions : session_window_map[s] # None

------------------------------------------------------------------------------
\* The task that takes the step.
Steps(t) == pc'[t] # pc[t]

ReadOnlyOps == {"window_info", "all_tracked_windows", "focus_window"}

C11_Step ==
    /\ \A s \in Sessions :
          (session_window_map[s] # None /\ session_window_map'[s] = None) =>
              \E t \in Tasks :
                  /\ Steps(t)
                  /\ \/ /\ call'[t].op = "unregister_window"
                        /\ call'[t].session_id = s
                     \/ /\ call'[t].op = "update_from_sessions"
                        /\ s \notin Elements(call'[t].sessions)
    /\ \A t \in Tasks :
          (Steps(t) /\ call'[t].op \in ReadOnlyOps) =>
              session_window_map' = session_window_map

\* C11: an entry of the map disappears only in a step of unregister_window
\* for its session or of update_from_sessions with a live list that lacks its
\* session; no step of window_info, all_tracked_windows or focus_window
\* changes the map at all.
C11_RemovalOnlyByUnregisterOrUpdate == [][C11_Step]_vars

\* unregister_window removed the entry of one session while the other
\* session stayed tracked.
C11_Witness ==
    \E t \in Tasks :
        /\ IsUnregister(t) /\ hist[t].returned /\ ~hist[t].again
        /\ hist[t].map_at_call[call[t].session_id] # None
        /\ session_window_map[call[t].session_id] = None
        /\ \E s \in Sessions : session_window_map[s] # None

------------------------------------------------------------------------------
\* Some step of u's unregister_window returned while t's call stood at pc p.
UnregisteredAt(t, u, p) ==
    [task |-> u, what |-> "returned", call |-> call[u], at |-> p] \in hist[t].seen

C12_State ==
    \A t \in Tasks :
        (IsRegister(t) /\ pc[t] \in {"reg_sleep", "fw_enum", "reg_check"}) =>
            ENABLED (RegSleep(t) \/ FwEnumerate(t) \/ RegCheck(t))

C12_Step ==
    \A u \in Tasks :
        (Steps(u) /\ call'[u].op = "unregister_window") =>
            \A t \in Tasks \ {u} :
                /\ pc'[t] = pc[t]
                /\ local'[t] = local[t]
                /\ call'[t] = call[t]
                /\ hist'[t].returned = hist[t].returned

\* C12: nothing cancels a registration that is under way: no step of an
\* unregister_window call moves, ends or alters another task's call, and a
\* register_window call that sleeps, is about to enumerate or has its match
\* result can always go on, so it can insert after the removal.
C12_NoCancellation == []C12_State /\ [][C12_Step]_vars

\* Session s was tracked; unregister_window(s) removed the entry and returned
\* while register_window(s) slept in its schedule; the registration went on,
\* matched and inserted, and s is tracked again.
C12_Witness ==
    \E t, u \in Tasks :
        /\ t # u
        /\ IsRegister(t) /\ IsUnregister(u)
        /\ call[u].session_id = call[t].session_id
        /\ hist[t].returned /\ hist[u].returned
        /\ hist[u].map_at_call[call[u].session_id] # None
        /\ UnregisteredAt(t, u, "reg_sleep")
        /\ hist[t].inserts # <<>>
        /\ session_window_map[call[t].session_id] # None

------------------------------------------------------------------------------
\* Tasks t and u made overlapping register_window calls for one session,
\* both matched, both inserted and both returned.
BothRegistered(t, u) ==
    /\ t # u
    /\ IsRegister(t) /\ IsRegister(u)
    /\ call[t].session_id = call[u].session_id
    /\ hist[t].returned /\ hist[u].returned
    /\ hist[t].inserts # <<>> /\ hist[u].inserts # <<>>
    /\ \/ \E e \in hist[t].seen : e.task = u
       \/ \E e \in hist[u].seen : e.task = t

\* u completed its match while t had not yet reached its own.
MatchedLast(t, u) ==
    \E p \in {"reg_sleep", "fw_enum", "fw_lock"} :
        [task |-> u, what |-> "matched", call |-> call[u], at |-> p] \in hist[t].seen

\* u inserted (and returned) while t's call was still under way.
InsertedLast(t, u) ==
    \E e \in hist[t].seen : e.task = u /\ e.what = "returned"

Entry(t) == Some(hist[t].inserts[1].window_info)

\* C13 as claimed: of two concurrent register_window calls for one session
\* that both matched, the entry left when both have returned is the one of
\* the call that completed its match last.
C13_LastMatchWins ==
    \A t, u \in Tasks :
        (BothRegistered(t, u) /\ MatchedLast(t, u)) =>
            session_window_map[call[t].session_id] = Entry(t)

\* C13: of two concurrent register_window calls for one session that both
\* matched, the entry left when both have returned is the one of the call
\* that inserted last, whole: it is what that call's match returned.
C13_LastInsertWins ==
    \A t, u \in Tasks :
        (BothRegistered(t, u) /\ InsertedLast(t, u)) =>
            /\ session_window_map[call[t].session_id] = Entry(t)
            /\ Entry(t) = hist[t].outcomes[Len(hist[t].outcomes)]
            /\ \E w \in UNION {Elements(ws) : ws \in ConcScreens} :
                  Entry(t) = Some(ToWindowInfo(w, call[t].session_id))

\* Two concurrent calls matched different windows; the call that matched
\* first inserted last, and its window is the entry.
C13_Witness ==
    \E t, u \in Tasks :
        /\ BothRegistered(t, u)
        /\ MatchedLast(u, t)
        /\ InsertedLast(t, u)
        /\ Entry(t) # Entry(u)
        /\ session_window_map[call[t].session_id] = Entry(t)

------------------------------------------------------------------------------
\* Tasks t and u are in register_window calls for different sessions.
RegisterOthers(t, u) ==
    /\ t # u
    /\ IsRegister(t) /\ IsRegister(u)
    /\ call[t].session_id # call[u].session_id

\* C14 as claimed: no lock serialises the matching, so a register_window
\* call never stands before its match step waiting for the match step of a
\* call for another session to finish.
C14_NeverWaitsForMatching ==
    \A t, u \in Tasks :
        RegisterOthers(t, u) =>
            ~(pc[t] = "fw_lock" /\ pc[u] = "fw_match" /\ matcher_writer = Some(u))

\* C14: the enumeration is not serialised and no guard of the map is held
\* while a call enumerates or matches, but the match step runs under the
\* matcher's write guard: two calls are never inside it at the same time.
C14_MatchSerialised ==
    \A t \in Tasks :
        IsRegister(t) =>
            /\ pc[t] = "fw_enum" => ENABLED FwEnumerate(t)
            /\ pc[t] \in {"fw_enum", "fw_lock", "fw_match"} =>
                   (map_writer # Some(t) /\ t \notin map_readers)
            /\ pc[t] = "fw_match" =>
                   /\ matcher_writer = Some(t)
                   /\ \A u \in Tasks \ {t} : pc[u] # "fw_match"

\* A call for one session is inside its match step while a call for another
\* session, which has taken its snapshot, stands before its own.
C14_Witness ==
    \E t, u \in Tasks :
        /\ RegisterOthers(t, u)
        /\ pc[t] = "fw_match" /\ matcher_writer = Some(t)
        /\ pc[u] = "fw_lock"
        /\ local[t].terminal_windows # <<>>
        /\ local[u].terminal_windows # <<>>

------------------------------------------------------------------------------
\* The d-th ancestor of pid in the process table (None above its top).
RECURSIVE AncestorAt(_, _, _)
AncestorAt(tree, pid, d) ==
    IF d = 0 THEN Some(pid)
    ELSE LET below == AncestorAt(tree, pid, d - 1)
         IN  IF IsSome(below) /\ Unwrap(below) \in DOMAIN tree
             THEN Some(tree[Unwrap(below)])
             ELSE None

\* The windows of the last direct call's snapshot that belong to the
\* requested terminal application.
Filtered == {w \in Elements(m_args.windows) : w.terminal_app = m_args.terminal_app}

\* The session had a hint and a window of the snapshot carries its id.
HintInSnapshot ==
    /\ IsSome(m_ret.hint)
    /\ \E w \in Elements(m_args.windows) : w.window_id = Unwrap(m_ret.hint)

\* A find_window call of FindSpec has returned, not from the cache.
FreshFind == m_ret.op = "find_window" /\ ~HintInSnapshot

SessionPid ==
    IF IsSome(m_args.session_info) THEN Unwrap(m_args.session_info).pid ELSE None

\* The depths up to n at which an ancestor of the session process owns a
\* filtered window.
OwnerDepths(n) ==
    IF SessionPid = None THEN {}
    ELSE {d \in 1..n : \E w \in Filtered :
              AncestorAt(FindTree, Unwrap(SessionPid), d) = Some(w.owner_pid)}

\* C15: when a find_window call without a usable hint has a session pid and
\* the nearest ancestor within depth 10 that owns a filtered window is at
\* depth d, the call returns a filtered window owned by that ancestor.
C15_NearestAncestorFirst ==
    (FreshFind /\ OwnerDepths(10) # {}) =>
        /\ IsSome(m_ret.window)
        /\ Unwrap(m_ret.window) \in Filtered
        /\ Some(Unwrap(m_ret.window).owner_pid)
              = AncestorAt(FindTree, Unwrap(SessionPid), Min(OwnerDepths(10)))

\* The parent owns a window, the tenth ancestor owns one that comes first in
\* the snapshot, a third window matches the working directory, and the call
\* returned the parent's window.
C15_Witness ==
    /\ FreshFind
    /\ OwnerDepths(10) = {1, 10}
    /\ Unwrap(m_args.session_info).working_dir = WorkDir
    /\ \E w \in Filtered : window_title_contains(w, <<"b">>)
    /\ m_args.windows[1].owner_pid = 112
    /\ Unwrap(m_ret.window).owner_pid = 103

------------------------------------------------------------------------------
\* C16: a find_window call whose snapshot holds no window of the requested
\* terminal application returns None, whatever the other arguments and the
\* cache are.
C16_EmptyFilterGivesNone ==
    (m_ret.op = "find_window" /\ Filtered = {}) => m_ret.window = None

------------------------------------------------------------------------------
\* What each strategy of find_window can pick from in the last direct call.
\* The traversal looks at the parent and at the ten ancestors above it.
AncestryHits ==
    IF SessionPid = None THEN {}
    ELSE {w \in Filtered : \E d \in 1..(1 + 10) :
              AncestorAt(FindTree, Unwrap(SessionPid), d) = Some(w.owner_pid)}

DirHits ==
    IF m_args.session_info = None THEN {}
    ELSE LET working_dir == Unwrap(m_args.session_info).working_dir
         IN  {w \in Filtered :
                 \/ window_title_contains(w, DirName(working_dir))
                 \/ window_title_contains(w, working_dir)}

RefHits ==
    IF m_args.terminal_app = "Terminal" /\ IsSome(m_args.tab_reference)
    THEN {w \in Filtered :
             Some(w.window_id) = extract_window_id(Unwrap(m_args.tab_reference))}
    ELSE {}

TabHits ==
    IF m_args.terminal_app = "iTerm2" /\ IsSome(m_args.tab_id)
    THEN {w \in Filtered : window_title_contains(w, Unwrap(m_args.tab_id))}
    ELSE {}

LargestId == {w \in Filtered : \A x \in Filtered : x.window_id <= w.window_id}

\* The last direct call returned a window of S.
ReturnedFrom(S) == IsSome(m_ret.window) /\ Unwrap(m_ret.window) \in S

\* C17: find_window returns what the first strategy that finds a window
\* finds, in the order: cached id present in the snapshot, ancestry, working
\* directory in the title, tab reference (Terminal only), tab id in the title
\* (iTerm2 only), largest id; None when none finds a window.
C17_StrictStrategyOrder ==
    m_ret.op = "find_window" =>
        IF HintInSnapshot
        THEN /\ IsSome(m_ret.window)
             /\ Unwrap(m_ret.window).window_id = Unwrap(m_ret.hint)
        ELSE IF AncestryHits # {} THEN ReturnedFrom(AncestryHits)
        ELSE IF DirHits # {} THEN ReturnedFrom(DirHits)
        ELSE IF RefHits # {} THEN ReturnedFrom(RefHits)
        ELSE IF TabHits # {} THEN ReturnedFrom(TabHits)
        ELSE IF Filtered # {} THEN ReturnedFrom(LargestId)
        ELSE m_ret.window = None

\* The ancestry returned a window although the working directory and the
\* largest id point at another window.
C17_Witness ==
    /\ FreshFind
    /\ ReturnedFrom(AncestryHits)
    /\ DirHits # {}
    /\ ~ReturnedFrom(DirHits) /\ ~ReturnedFrom(LargestId)

------------------------------------------------------------------------------
\* The filtered windows whose title contains the final component of the
\* session's working directory.
FinalComponentHits ==
    IF m_args.session_info = None THEN {}
    ELSE {w \in Filtered :
             window_title_contains(w, DirName(Unwrap(m_args.session_info).working_dir))}

\* C18: when a find_window call without a usable hint and without an
\* ancestry match has exactly one filtered window whose title contains the
\* final component of working_dir, it returns that window.
C18_WorkingDirMatch ==
    (FreshFind /\ AncestryHits = {} /\ Cardinality(FinalComponentHits) = 1) =>
        ReturnedFrom(FinalComponentHits)

\* The one window titled with the directory name "b" of "/a/b" was returned
\* although the tab reference and the largest id point at other windows.
C18_Witness ==
    /\ FreshFind /\ AncestryHits = {}
    /\ IsSome(m_args.session_info)
    /\ Unwrap(m_args.session_info).working_dir = WorkDir
    /\ Cardinality(FinalComponentHits) = 1
    /\ ReturnedFrom(FinalComponentHits)
    /\ RefHits # {}
    /\ ~ReturnedFrom(RefHits) /\ ~ReturnedFrom(LargestId)

------------------------------------------------------------------------------
\* C19: when the filtered set is not empty and neither the cache nor the
\* ancestry, title, tab reference or tab id strategy finds a window,
\* find_window returns the filtered window with the largest id, which is a
\* window of the requested terminal application.
C19_MaxIdFallback ==
    (/\ FreshFind /\ Filtered # {}
     /\ AncestryHits = {} /\ DirHits = {} /\ RefHits = {} /\ TabHits = {}) =>
        /\ ReturnedFrom(LargestId)
        /\ Unwrap(m_ret.window).terminal_app = m_args.terminal_app
        /\ \A w \in Filtered : w.window_id <= Unwrap(m_ret.window).window_id

\* Filtered windows with the ids 3, 7, 5 in this order and a window of
\* another application with the id 12: the call returned the window 7.
C19_Witness ==
    /\ FreshFind
    /\ AncestryHits = {} /\ DirHits = {} /\ RefHits = {} /\ TabHits = {}
    /\ Len(m_args.windows) = 4
    /\ [i \in 1..3 |-> m_args.windows[i].window_id] = <<3, 7, 5>>
    /\ {w.window_id : w \in Filtered} = {3, 7, 5}
    /\ m_args.windows[4].window_id = 12
    /\ Unwrap(m_ret.window).window_id = 7

\* C20: every window find_window returns is one of the windows filtered by
\* the requested terminal application, also when it comes from the cache.
C20_ReturnsRequestedApp ==
    (m_ret.op = "find_window" /\ IsSome(m_ret.window)) =>
        /\ Unwrap(m_ret.window) \in Filtered
        /\ Unwrap(m_ret.window).terminal_app = m_args.terminal_app

------------------------------------------------------------------------------
\* What find_window returns when the ancestry finds nothing: the result of
\* the strategies that follow it.
AfterAncestry ==
    IF DirHits # {} THEN ReturnedFrom(DirHits)
    ELSE IF RefHits # {} THEN ReturnedFrom(RefHits)
    ELSE IF TabHits # {} THEN ReturnedFrom(TabHits)
    ELSE IF Filtered # {} THEN ReturnedFrom(LargestId)
    ELSE m_ret.window = None

\* The last direct call returned a window owned by the d-th ancestor of the
\* session process.
ReturnedAncestor(d) ==
    /\ IsSome(m_ret.window)
    /\ Some(Unwrap(m_ret.window).owner_pid)
          = AncestorAt(FindTree, Unwrap(SessionPid), d)

\* C21: the ancestry strategy of find_window looks at the ancestors at the
\* depths 1 to 10 only: when none of them owns a filtered window, the call
\* returns what the later strategies find, also when an ancestor at depth 11
\* or above owns a filtered window.
C21_AncestryDepthTen ==
    (FreshFind /\ OwnerDepths(10) = {}) => AfterAncestry

\* C21 as amended: the ancestry strategy looks at the ancestors at the
\* depths 1 to 11 (the parent and the ten above it): the nearest of them that
\* owns a filtered window decides, and when none does, the call returns what
\* the later strategies find, also when an ancestor at depth 12 or above owns
\* a filtered window.
C21_AncestryDepthEleven ==
    FreshFind =>
        IF OwnerDepths(11) # {}
        THEN ReturnedAncestor(Min(OwnerDepths(11)))
        ELSE AfterAncestry

\* The only ancestor that owns a filtered window is the 12th; its window
\* comes first in the snapshot and another window was returned.
C21_Witness ==
    /\ FreshFind
    /\ SessionPid # None
    /\ OwnerDepths(12) = {12}
    /\ m_args.windows[1].terminal_app = m_args.terminal_app
    /\ ReturnedAncestor(0 + 12) = FALSE
    /\ IsSome(m_ret.window)
    /\ Unwrap(m_ret.window) # m_args.windows[1]
    /\ AncestorAt(FindTree, Unwrap(SessionPid), 12) = Some(m_args.windows[1].owner_pid)

------------------------------------------------------------------------------
\* A direct call of find_window or find_window_for_session returns in this
\* step.
FindReturns == m_ret = NoReturn /\ m_ret'.op \in FindOps

C22_State ==
    (m_ret.op \in FindOps /\ IsSome(m_ret.window)) =>
        session_window_cache[m_args.session_id]
            = Some(Unwrap(m_ret.window).window_id)

C22_Step ==
    (FindReturns /\ IsSome(m_ret'.window)) =>
        \A s \in Sessions \ {m_args.session_id} :
            session_window_cache'[s] = session_window_cache[s]

\* C22: after find_window or find_window_for_session has returned a window
\* for a session, by the cache or by any other strategy, the cache maps the
\* session to the id of that window, and the call has changed the cache
\* entry of no other session.
C22_CacheRecordsResult == []C22_State /\ [][C22_Step]_vars

\* A call for one session answered from the cache while the other session
\* has a hint for another window.
C22_Witness ==
    /\ m_ret.op \in FindOps
    /\ IsSome(m_ret.window)
    /\ m_ret.hint = Some(Unwrap(m_ret.window).window_id)
    /\ \E s \in Sessions \ {m_args.session_id} :
           /\ IsSome(session_window_cache[s])
           /\ session_window_cache[s] # session_window_cache[m_args.session_id]

\* C23: a call of find_window or find_window_for_session that returns None
\* leaves the cache exactly as it was: nothing is added and a stale hint of
\* the session is neither removed nor rewritten.
C23_FailureLeavesCache ==
    [][(FindReturns /\ m_ret'.window = None) =>
           session_window_cache' = session_window_cache]_vars

\* find_window_for_session failed for a session whose hint is stale, and the
\* hint is still in the cache.
C23_Witness ==
    /\ m_ret.op = "find_window_for_session"
    /\ m_ret.window = None
    /\ StaleHint
    /\ session_window_cache[m_args.session_id] = m_ret.hint

------------------------------------------------------------------------------
\* A find_window_for_session call of SessionSpec has returned, not from the
\* cache.
FreshFfs == m_ret.op = "find_window_for_session" /\ ~HintInSnapshot

\* The depths up to n the walk of the session process gets to: depth 0 is the
\* process itself, and the walk goes on to a parent that exists and is
\* neither 0 nor 1.
FfsExamined(n) ==
    IF m_args.session_info.pid = None THEN {}
    ELSE {d \in 0..n : \A k \in 1..d :
              LET a == AncestorAt(ProcessTable, Unwrap(m_args.session_info.pid), k)
              IN  IsSome(a) /\ Unwrap(a) \notin {0, 1}}

\* Those of them at which the process owns a window of the snapshot, of
\* whatever terminal application.
FfsOwnerDepths(n) ==
    {d \in FfsExamined(n) : \E w \in Elements(m_args.windows) :
        Some(w.owner_pid) = AncestorAt(ProcessTable, Unwrap(m_args.session_info.pid), d)}

FfsDirHits ==
    {w \in Elements(m_args.windows) :
        /\ IsSome(w.title)
        /\ \/ StrContains(Unwrap(w.title), DirName(m_args.session_info.working_dir))
           \/ StrContains(Unwrap(w.title), m_args.session_info.working_dir)}

FfsActHits ==
    IF /\ IsSome(m_args.session_info.activity_status)
       /\ Unwrap(m_args.session_info.activity_status) # <<>>
    THEN {w \in Elements(m_args.windows) :
             /\ IsSome(w.title)
             /\ StrContains(Unwrap(w.title),
                            Unwrap(m_args.session_info.activity_status))}
    ELSE {}

\* C24: find_window_for_session looks at all windows of the snapshot and
\* returns what the first strategy that finds a window finds, in the order:
\* the walk from the session process upwards (20 levels: the process and its
\* ancestors up to the 19th), nearest first; the working directory in the
\* title; the activity status in the title, tried only when it is present
\* and not empty; None when none finds a window.
C24_SessionStrategyOrder ==
    FreshFfs =>
        IF FfsOwnerDepths(20 - 1) # {}
        THEN /\ IsSome(m_ret.window)
             /\ Some(Unwrap(m_ret.window).owner_pid)
                   = AncestorAt(ProcessTable, Unwrap(m_args.session_info.pid),
                                Min(FfsOwnerDepths(20 - 1)))
        ELSE IF FfsDirHits # {} THEN ReturnedFrom(FfsDirHits)
        ELSE IF FfsActHits # {} THEN ReturnedFrom(FfsActHits)
        ELSE m_ret.window = None

\* The 20th ancestor owns a window of the snapshot and no nearer one does,
\* no title mentions the working directory, and the call returned the other
\* window of the snapshot, an iTerm2 window titled with the activity status
\* that comes after a Terminal window.
C24_Witness ==
    /\ FreshFfs
    /\ FfsOwnerDepths(20) = {20}
    /\ FfsDirHits = {}
    /\ ReturnedFrom(FfsActHits)
    /\ Unwrap(m_ret.window).terminal_app = "iTerm2"
    /\ Unwrap(m_ret.window).owner_pid
          # Unwrap(AncestorAt(ProcessTable, Unwrap(m_args.session_info.pid), 20))

------------------------------------------------------------------------------
\* C25: find_window_for_session called without a hint for a session that has
\* no pid, an empty working directory and no activity status returns None,
\* whatever the snapshot holds.
C25_MinimalInfoFindsNothing ==
    (/\ m_ret.op = "find_window_for_session"
     /\ m_ret.hint = None
     /\ ArgSessionInfo(m_args) = Some(MinimalSessionInfo(m_args.session_id))) =>
        m_ret.window = None

------------------------------------------------------------------------------
\* Where a call stands while it holds the write guard of the map: about to
\* insert or to remove.
ApplyPcs == {"reg_insert", "unreg_remove", "upd_remove", "upd_insert"}

C26_State ==
    \A t \in Tasks :
        map_writer = Some(t) =>
            /\ pc[t] \in ApplyPcs
            /\ matcher_writer # Some(t)
            /\ pc[t] \in {"reg_insert", "upd_insert"} => IsSome(local[t].window_info)

C26_Step ==
    \A t \in Tasks :
        (map_writer = Some(t) /\ Steps(t)) =>
            /\ map_writer' = None
            /\ hist'[t].attempts = hist[t].attempts
            /\ hist'[t].outcomes = hist[t].outcomes
            /\ matcher_writer' = matcher_writer
            /\ session_window_cache' = session_window_cache

\* C26: a call that holds the write guard of the map is about to insert a
\* result it already has or to remove, and the one step it takes with the
\* guard applies that and releases the guard: it makes no enumeration and no
\* matcher call with the guard and does not acquire the matcher's guard.
C26_WriteLockOnlyApplies == []C26_State /\ [][C26_Step]_vars

\* update_from_sessions holds the write guard to insert the window it has
\* found for an unmapped session.
C26_Witness ==
    \E t \in Tasks :
        /\ map_writer = Some(t)
        /\ pc[t] = "upd_insert"
        /\ Len(hist[t].attempts) > 0
        /\ IsSome(local[t].window_info)

------------------------------------------------------------------------------
\* The sessions whose entry this step changes, and those it gives an entry.
ChangedEntries == {s \in Sessions : session_window_map'[s] # session_window_map[s]}
WrittenEntries == {s \in ChangedEntries : IsSome(session_window_map'[s])}

C27_Step ==
    \A t \in Tasks :
        (Steps(t) /\ pc[t] # "idle") =>
            /\ (IsRegister(t) \/ IsUnregister(t)) =>
                   ChangedEntries \subseteq {call[t].session_id}
            /\ IsUpdate(t) => WrittenEntries \subseteq LiveSet(t)

\* C27: a step of register_window(s, ...) or unregister_window(s) changes
\* no entry of the map but that of s, and a step of update_from_sessions
\* gives an entry only to a session of the live list it was called with.
C27_OtherSessionsUntouched == [][C27_Step]_vars

\* register_window has inserted an entry for one session while the other
\* session is tracked with the same window; both entries are there.
C27_Witness ==
    \E t \in Tasks :
        /\ IsRegister(t)
        /\ hist[t].returned
        /\ hist[t].inserts # <<>>
        /\ \E s \in Sessions \ {call[t].session_id} :
               /\ IsSome(session_window_map[s])
               /\ IsSome(session_window_map[call[t].session_id])
               /\ Unwrap(session_window_map[s]).window_id
                     = Unwrap(session_window_map[call[t].session_id]).window_id

------------------------------------------------------------------------------
\* C28: every entry of the map carries the session id it is keyed by (the
\* map is a HashMap, so a session id has at most one entry).
C28_KeyedBySessionId ==
    \A s \in Sessions :
        IsSome(session_window_map[s]) => Unwrap(session_window_map[s]).session_id = s

\* One update_from_sessions call has inserted an entry for each of the two
\* sessions, with different windows.
C28_Witness ==
    \E t \in Tasks :
        /\ IsUpdate(t)
        /\ Len(hist[t].inserts) = 2
        /\ \A s \in Sessions : IsSome(session_window_map[s])
        /\ Unwrap(session_window_map["a"]).window_id
              # Unwrap(session_window_map["b"]).window_id

------------------------------------------------------------------------------
\* Sessions s and r are both tracked, with the same window id.
SameWindow(s, r) ==
    /\ s # r
    /\ IsSome(session_window_map[s]) /\ IsSome(session_window_map[r])
    /\ Unwrap(session_window_map[s]).window_id
          = Unwrap(session_window_map[r]).window_id

C29_Step ==
    \A t \in Tasks : \A s \in Sessions :
        (/\ pc[t] = "reg_insert" /\ Steps(t)
         /\ s # call[t].session_id
         /\ IsSome(session_window_map[s])
         /\ Unwrap(session_window_map[s]).window_id
               = Unwrap(local[t].window_info).window_id) =>
            /\ session_window_map'[s] = session_window_map[s]
            /\ session_window_map'[call[t].session_id] = local[t].window_info

\* C29: nothing keeps a window to one session: when register_window inserts
\* a window whose id another session is tracked with, the insert is applied
\* and the other entry stays, so that both sessions are tracked with that
\* window id (the witness is such a state).
C29_WindowSharedBySessions == [][C29_Step]_vars

\* Two concurrent register_window calls for different sessions and the same
\* terminal application, without session info or tab identity (resolved by
\* the largest id), have both returned and both sessions are tracked with
\* the same window id.
C29_Witness ==
    \E t, u \in Tasks :
        /\ t # u
        /\ IsRegister(t) /\ IsRegister(u)
        /\ call[t].terminal_app = call[u].terminal_app
        /\ hist[t].returned /\ hist[u].returned
        /\ hist[t].inserts # <<>> /\ hist[u].inserts # <<>>
        /\ \E e \in hist[t].seen : e.task = u
        /\ SameWindow(call[t].session_id, call[u].session_id)

------------------------------------------------------------------------------
\* Task t's call is register_window for "Terminal" with a tab reference that
\* names a window id.
ExplicitTerminal(t) ==
    /\ IsRegister(t)
    /\ call[t].terminal_app = "Terminal"
    /\ IsSome(call[t].tab_reference)
    /\ IsSome(extract_window_id(Unwrap(call[t].tab_reference)))

NamedId(t) == Unwrap(extract_window_id(Unwrap(call[t].tab_reference)))

\* The Terminal windows of the snapshot task t has enumerated, those of them
\* with the named id, and the windows with the id of the session's hint.
TerminalsSeen(t) ==
    {w \in Elements(local[t].terminal_windows) : w.terminal_app = "Terminal"}
NamedSeen(t) == {w \in TerminalsSeen(t) : w.window_id = NamedId(t)}
HintSeen(t) ==
    {w \in Elements(local[t].terminal_windows) :
        session_window_cache[call[t].session_id] = Some(w.window_id)}

\* Task t makes its match in this step.
Matches(t) == pc[t] = "fw_match" /\ Steps(t)

C30_ExactState ==
    \A t \in Tasks :
        ExplicitTerminal(t) =>
            \A i \in 1..Len(hist[t].inserts) :
                hist[t].inserts[i].window_info.window_id = NamedId(t)

C30_ExactStep ==
    \A t \in Tasks :
        (ExplicitTerminal(t) /\ Matches(t) /\ NamedSeen(t) = {}) =>
            local'[t].window_info = None

\* C30 as claimed: a register_window call for "Terminal" with a tab
\* reference naming window id N inserts only a mapping with window id N, and
\* its attempt fails when the snapshot holds no Terminal window with id N.
C30_ExplicitReferenceExact == []C30_ExactState /\ [][C30_ExactStep]_vars

C30_ChainState ==
    \A t \in Tasks :
        (ExplicitTerminal(t) /\ hist[t].returned) =>
            /\ Len(hist[t].attempts) = 1
            /\ hist[t].inserts =
                  IF IsSome(hist[t].outcomes[1])
                  THEN <<[session_id |-> call[t].session_id,
                          window_info |-> Unwrap(hist[t].outcomes[1])]>>
                  ELSE <<>>

C30_ChainStep ==
    \A t \in Tasks :
        (ExplicitTerminal(t) /\ Matches(t)) =>
            LET found == local'[t].window_info
            IN  IF HintSeen(t) # {}
                THEN IsSome(found) /\ Unwrap(found).window_id \in
                                         {w.window_id : w \in HintSeen(t)}
                ELSE IF NamedSeen(t) # {}
                THEN /\ IsSome(found)
                     /\ Unwrap(found).window_id = NamedId(t)
                     /\ Unwrap(found).terminal_app = "Terminal"
                ELSE IF TerminalsSeen(t) # {}
                THEN /\ IsSome(found)
                     /\ Unwrap(found).terminal_app = "Terminal"
                     /\ \A w \in TerminalsSeen(t) :
                            w.window_id <= Unwrap(found).window_id
                ELSE found = None

\* C30 as amended: the call makes one attempt and inserts what it matched,
\* if anything.  The match is the window with the id of the session's hint
\* when the snapshot holds one; else the Terminal window with id N when the
\* snapshot holds one; else the Terminal window with the largest id; and it
\* fails only when the snapshot holds no Terminal window.
C30_ExplicitReferenceChain == []C30_ChainState /\ [][C30_ChainStep]_vars

\* A call naming a window id, made for a session without a hint, has
\* returned after inserting a Terminal window with another id.
C30_Witness ==
    \E t \in Tasks :
        /\ ExplicitTerminal(t)
        /\ hist[t].returned
        /\ hist[t].hint = None
        /\ Len(hist[t].inserts) = 1
        /\ hist[t].inserts[1].window_info.window_id # NamedId(t)
        /\ hist[t].inserts[1].window_info.terminal_app = "Terminal"
        /\ session_window_map[call[t].session_id]
              = Some(hist[t].inserts[1].window_info)

------------------------------------------------------------------------------
\* Where update_from_sessions stands between its check that a session is
\* unmapped and its insert for that session.
ProbePcs == {"ffs_enum", "ffs_lock", "ffs_match", "upd_check", "upd_ins_lock",
             "upd_insert"}

\* C31 as claimed: update_from_sessions inserts only for a live session that
\* has no mapping at the time of the insert: it overwrites nothing.
C31_NeverOverwrites ==
    [][\A t \in Tasks :
           (IsUpdate(t) /\ pc[t] = "upd_insert" /\ Steps(t)) =>
               /\ UpdSession(t) \in LiveSet(t)
               /\ session_window_map[UpdSession(t)] = None]_vars

C31_Step ==
    \A t \in Tasks :
        (IsUpdate(t) /\ Steps(t)) =>
            /\ pc[t] = "upd_read" =>
                   (pc'[t] = "ffs_enum" <=> session_window_map[UpdSession(t)] = None)
            /\ pc[t] = "upd_insert" =>
                   /\ UpdSession(t) \in LiveSet(t)
                   /\ session_window_map' =
                          [session_window_map EXCEPT
                              ![UpdSession(t)] = local[t].window_info]

\* C31 as amended: update_from_sessions probes exactly the live sessions it
\* finds unmapped at its check and, when the probe succeeds, inserts what it
\* found whatever the map holds by then: a mapping a register_window call
\* inserted between the check and the insert is overwritten.
C31_InsertsForUnmappedAtCheck == [][C31_Step]_vars

\* The registration of a session returned, having inserted one window,
\* while the backfill stood between its check and its insert for that
\* session; the backfill has then inserted another window, which is the one
\* the map holds.
C31_Witness ==
    \E t, u \in Tasks :
        /\ IsUpdate(t) /\ IsRegister(u)
        /\ hist[u].returned /\ Len(hist[u].inserts) = 1
        /\ \E i \in 1..Len(hist[t].inserts) :
               /\ hist[t].inserts[i].session_id = call[u].session_id
               /\ hist[t].inserts[i].window_info # hist[u].inserts[1].window_info
               /\ session_window_map[call[u].session_id]
                     = Some(hist[t].inserts[i].window_info)
        /\ \E e \in hist[t].seen :
               e.task = u /\ e.what = "returned" /\ e.at \in ProbePcs

\* The places where a task waits for a guard, and the places where it holds
\* one (the step that uses the guard is the step that drops it).
MapWriteWaits == {"reg_lock", "unreg_lock", "upd_lock", "upd_ins_lock"}
MapReadWaits == {"wi_lock", "all_lock", "focus_lock", "upd_wi_lock"}
MatcherWaits == {"fw_lock", "ffs_lock"}
MapWriteHolds == {"reg_insert", "unreg_remove", "upd_remove", "upd_insert"}
MapReadHolds == {"wi_read", "all_read", "focus_read", "upd_read"}
MatcherHolds == {"fw_match", "ffs_match"}

HoldsMapGuard(t) == map_writer = Some(t) \/ t \in map_readers
HoldsMatcherGuard(t) == matcher_writer = Some(t)

\* Task t waits for a guard that it cannot have now.
Blocked(t) ==
    \/ pc[t] \in MapWriteWaits /\ ~MapLockFree
    \/ pc[t] \in MapReadWaits /\ map_writer # None
    \/ pc[t] \in MatcherWaits /\ matcher_writer # None

\* The next step of a call that is under way can be taken (the match steps
\* and the enumerations need nothing but the place and, for a match, the
\* guard of the matcher).
CanStep(t) ==
    CASE pc[t] \in MatcherHolds -> matcher_writer = Some(t)
      [] pc[t] \in {"fw_enum", "ffs_enum"} -> TRUE
      [] OTHER ->
            ENABLED (\/ RegSleep(t) \/ FwLock(t) \/ RegCheck(t) \/ RegLock(t)
                     \/ RegInsert(t) \/ UnregLock(t) \/ UnregRemove(t)
                     \/ WiLock(t) \/ WiRead(t) \/ AllLock(t) \/ AllRead(t)
                     \/ FocusLock(t) \/ FocusRead(t) \/ FocusWmctrl(t)
                     \/ FocusXdotool(t) \/ UpdLock(t) \/ UpdRemove(t)
                     \/ UpdNext(t) \/ UpdWiLock(t) \/ UpdRead(t) \/ FfsLock(t)
                     \/ UpdCheck(t) \/ UpdInsLock(t) \/ UpdInsert(t))

\* Steps a call at most still has to take.
CallMeasure(t) ==
    CASE pc[t] \in RegisterPcs -> RegisterMeasure(t)
      [] pc[t] \in {"unreg_lock", "wi_lock", "all_lock", "focus_xdotool"} -> 2
      [] pc[t] \in {"unreg_remove", "wi_read", "all_read"} -> 1
      [] pc[t] = "focus_lock" -> 5
      [] pc[t] = "focus_read" -> 4
      [] pc[t] = "focus_wmctrl" -> 3
      [] pc[t] = "upd_lock" -> Len(call[t].sessions) * 9 + 11
      [] pc[t] = "upd_remove" -> Len(call[t].sessions) * 9 + 10
      [] pc[t] \in {"upd_next", "upd_wi_lock", "upd_read", "ffs_enum", "ffs_lock",
                    "ffs_match", "upd_check", "upd_ins_lock", "upd_insert"} ->
             (Len(call[t].sessions) + 1 - local[t].index) * 9 +
             (CASE pc[t] = "upd_next" -> 9 [] pc[t] = "upd_wi_lock" -> 8
                [] pc[t] = "upd_read" -> 7 [] pc[t] = "ffs_enum" -> 6
                [] pc[t] = "ffs_lock" -> 5 [] pc[t] = "ffs_match" -> 4
                [] pc[t] = "upd_check" -> 3 [] pc[t] = "upd_ins_lock" -> 2
                [] pc[t] = "upd_insert" -> 1)
      [] OTHER -> 0

C32_State ==
    /\ \A t \in Tasks :
          /\ ~(HoldsMapGuard(t) /\ HoldsMatcherGuard(t))
          /\ map_writer = Some(t) <=> pc[t] \in MapWriteHolds
          /\ t \in map_readers <=> pc[t] \in MapReadHolds
          /\ HoldsMatcherGuard(t) <=> pc[t] \in MatcherHolds
          /\ Blocked(t) =>
                \E u \in Tasks \ {t} :
                    /\ HoldsMapGuard(u) \/ HoldsMatcherGuard(u)
                    /\ ~Blocked(u)
          /\ (pc[t] # "idle" /\ ~Blocked(t)) => CanStep(t)
          /\ CallMeasure(t) >= 0
          /\ CallMeasure(t) = 0 <=> pc[t] = "idle"

C32_Step ==
    \A t \in Tasks :
        (pc[t] # "idle" /\ <<pc[t], local[t]>>' # <<pc[t], local[t]>>)
        => CallMeasure(t)' < CallMeasure(t)

\* C32: the tracker cannot deadlock.  No task ever holds a guard of the map
\* and the guard of the matcher together; a task holds a guard only at the
\* step that uses and drops it; a task that waits for a guard waits for
\* another task that holds it and can step; every other task under way can
\* step; and each step of a call brings it closer to its return, so that
\* under fair scheduling every mix of calls completes: each task's call
\* returns.
C32_NoDeadlock ==
    /\ []C32_State
    /\ [][C32_Step]_vars
    /\ \A t \in Tasks : <>[](hist[t].returned)

\* An update_from_sessions call holds the write guard of the map while a
\* register_window call holds the guard of the matcher.
C32_Witness ==
    \E t, u \in Tasks :
        /\ t # u
        /\ pc[t] = "upd_remove" /\ map_writer = Some(t)
        /\ pc[u] = "fw_match" /\ matcher_writer = Some(u)
        /\ call[u].op = "register_window"

\* The task makes the match of a register_window attempt or of a backfill
\* probe now; the session matched for.
MatchPcs == {"fw_match", "ffs_match"}
MatchSession(t) == IF pc[t] = "fw_match" THEN call[t].session_id ELSE UpdSession(t)

\* A step takes entries out of the map and leaves every cache entry alone.
C33_RemovalStep ==
    (\E s \in Sessions : IsSome(session_window_map[s]) /\ session_window_map'[s] = None)
    => session_window_cache' = session_window_cache

\* A match for a session whose cached id is in the snapshot gives a window
\* of the snapshot with that id and keeps the hint.
C33_MatchStep ==
    \A t \in Tasks :
        (pc[t] \in MatchPcs /\ pc'[t] # pc[t]) =>
            LET s == MatchSession(t)
                ws == local[t].terminal_windows
            IN  (IsSome(session_window_cache[s]) /\
                 \E i \in 1..Len(ws) : ws[i].window_id = Unwrap(session_window_cache[s]))
                => /\ IsSome(local'[t].window_info)
                   /\ Unwrap(local'[t].window_info).window_id
                          = Unwrap(session_window_cache[s])
                   /\ \E i \in 1..Len(ws) :
                          local'[t].window_info = Some(ToWindowInfo(ws[i], s))
                   /\ session_window_cache'[s] = session_window_cache[s]

\* C33: removing a session from the map (unregister_window, or
\* update_from_sessions for a session that is not live) leaves the match
\* cache as it is, and a later register_window attempt or backfill probe for
\* a session whose cached id is in the snapshot returns the window with that
\* id, whatever terminal_app, tab reference or tab id the call passes.
C33_HintSurvivesRemoval == [][C33_RemovalStep /\ C33_MatchStep]_vars

\* A register_window for a session that was removed from the map has
\* matched the cached window although it asked for another application and
\* named another window.
C33_Witness ==
    \E t \in Tasks :
        /\ IsRegister(t) /\ pc[t] = "reg_check"
        /\ session_window_map[call[t].session_id] = None
        /\ IsSome(hist[t].hint) /\ IsSome(local[t].window_info)
        /\ Unwrap(local[t].window_info).window_id = Unwrap(hist[t].hint)
        /\ Unwrap(local[t].window_info).terminal_app # call[t].terminal_app
        /\ call[t].tab_reference = Some(TabRef1)
        /\ Unwrap(hist[t].hint) # 1

\* The direct matcher call made by this step, if it makes one.
CallsOp(op) == m_ret = NoReturn /\ m_ret' # NoReturn /\ m_ret'.op = op

C34_Step ==
    LET s == m_args.session_id
    IN  /\ CallsOp("clear_session_cache") =>
              /\ session_window_cache'[s] = None
              /\ \A x \in Sessions \ {s} :
                     session_window_cache'[x] = session_window_cache[x]
        /\ CallsOp("clear_all_cache") =>
              \A x \in Sessions : session_window_cache'[x] = None
        /\ (\E op \in FindOps : CallsOp(op)) =>
              /\ \A x \in Sessions \ {s} :
                     session_window_cache'[x] = session_window_cache[x]
              /\ IsSome(session_window_cache[s]) => IsSome(session_window_cache'[s])
        /\ (\E x \in Sessions :
                IsSome(session_window_cache[x]) /\ session_window_cache'[x] = None)
           => CallsOp("clear_session_cache") \/ CallsOp("clear_all_cache")

\* C34: clear_session_cache(s) removes the cache entry of s and no other,
\* clear_all_cache empties the cache, and no other step ever removes an
\* entry: find_window and find_window_for_session only add or overwrite the
\* entry of the session they are called for.
C34_OnlyClearsRemove == [][C34_Step]_vars

\* clear_session_cache has removed the entry of one session while the
\* other session keeps its entry.
C34_Witness ==
    /\ m_ret # NoReturn /\ m_ret.op = "clear_session_cache"
    /\ IsSome(m_ret.hint)
    /\ session_window_cache[m_args.session_id] = None
    /\ \E x \in Sessions \ {m_args.session_id} : IsSome(session_window_cache[x])

\* The k-th ancestor of the process of the call, as the process table gives
\* it: None when a lookup on the way fails.
RECURSIVE AncestorOf(_, _, _)
AncestorOf(tree, pid, k) ==
    IF k = 0 THEN Some(pid)
    ELSE LET below == AncestorOf(tree, pid, k - 1)
         IN  IF IsSome(below) /\ Unwrap(below) \in DOMAIN tree
             THEN Some(tree[Unwrap(below)]) ELSE None

\* The k-th ancestor is a process the system knows and its name contains an
\* allow-listed terminal name.
TerminalAt(a, k) ==
    LET p == AncestorOf(a.tree, a.pid, k)
    IN  /\ IsSome(p)
        /\ Unwrap(p) \in DOMAIN a.tree
        /\ IsTerminalName(AncNamesOf(a)[Unwrap(p)])

TerminalSteps(a) == {k \in 1..a.max_depth : TerminalAt(a, k)}

AncReturned == m_ret # NoReturn /\ m_ret.op = "find_terminal_ancestor"

\* C35: find_terminal_ancestor(pid, max_depth) makes at most max_depth
\* parent lookups and returns the nearest ancestor within max_depth steps
\* whose process name contains an allow-listed terminal name; it returns
\* None when there is none, when a parent lookup fails before one is found,
\* when the walk reaches a root process (0 or 1) without a match, and for
\* max_depth = 0; it never returns pid itself.
C35_NearestTerminalAncestor ==
    AncReturned =>
        LET a == m_args
            hits == TerminalSteps(a)
        IN  /\ m_ret.lookups <= a.max_depth
            /\ m_ret.result =
                   IF hits = {} THEN None ELSE AncestorOf(a.tree, a.pid, Min(hits))
            /\ (\E k \in 1..a.max_depth :
                    /\ AncestorOf(a.tree, a.pid, k) = None
                    /\ \A j \in 1..k : ~TerminalAt(a, j))
               => m_ret.result = None
            /\ (\E k \in 1..a.max_depth :
                    /\ AncestorOf(a.tree, a.pid, k) \in {Some(0), Some(1)}
                    /\ \A j \in 1..k : ~TerminalAt(a, j))
               => m_ret.result = None
            /\ m_ret.result # Some(a.pid)
            /\ a.max_depth = 0 => m_ret.result = None

\* A walk of exactly max_depth steps passed a shell and a process whose
\* name is only part of a terminal's name and returned the process after
\* them, whose name contains a terminal's name.
C35_Witness ==
    /\ AncReturned
    /\ m_args.pid = 5 /\ m_args.max_depth = 3
    /\ m_args.names[3] = <<"t", "e", "r", "m">>
    /\ m_args.names[2] = <<"u", "x", "t", "e", "r", "m">>
    /\ m_ret.result = Some(2)
    /\ m_ret.lookups = 3

\* C36: on Linux focus_window reports a failure of the activation only after
\* both utilities were tried: when wmctrl does not succeed (it cannot be
\* started, or it runs and exits without success) xdotool is run once, and
\* the call fails only if xdotool fails too.
C36_FallbackBeforeFailure ==
    \A t \in Tasks :
        (IsFocus(t) /\ hist[t].returned /\ hist[t].activations # <<>>) =>
            LET acts == hist[t].activations
            IN  /\ acts[1].utility = "wmctrl"
                /\ Len(acts) <= 2
                /\ acts[1].output = "exit_success" =>
                       Len(acts) = 1 /\ hist[t].result.ok
                /\ acts[1].output # "exit_success" =>
                       /\ Len(acts) = 2
                       /\ acts[2].utility = "xdotool"
                       /\ hist[t].result.ok <=> acts[2].output = "exit_success"

\* C37: GitMonitor cannot deadlock: under fair scheduling every call of
\* get_cached_repository, find_repository (with its cache_repository),
\* refresh_all_cached and clear_cache that is under way acquires its locks
\* and returns.
C37_EveryCallReturns ==
    \A t \in GitTasks : [](pc[t] # "idle" => <>(pc[t] = "idle"))

\* C38: whenever no call of the manager is under way, is_sleep_prevented()
\* is true exactly when one assertion created by the manager is outstanding
\* and its id is the stored one; and at most one assertion is ever
\* outstanding.
C38_FlagMatchesAssertion ==
    /\ Cardinality(power_manager.outstanding) <= 1
    /\ (\A t \in Tasks : pc[t] = "idle") =>
          (is_sleep_prevented <=>
              \E id \in power_manager.outstanding :
                  /\ power_manager.outstanding = {id}
                  /\ power_manager.assertion_id = Some(id))

\* The last n elements of a sequence, in their order.
LastN(seq, n) == SubSeq(seq, Len(seq) - n + 1, Len(seq))

\* The entries get_logs is to return: the most recently added
\* min(n, max_size) of the n entries added since the last clear.
RecentLogs(c) == LastN(c.added, Min({Len(c.added), c.max_size}))

C39_State ==
    /\ Len(log_collector.buffer) <= log_collector.max_size
    /\ log_collector.buffer = RecentLogs(log_collector)

C39_Step ==
    \A t \in Tasks :
        (pc[t] = "get_read" /\ pc'[t] = "idle") =>
            /\ hist'[t].result = RecentLogs(log_collector)
            /\ \A i, j \in 1..Len(hist'[t].result) :
                   i < j => \E a, b \in 1..Len(log_collector.added) :
                                /\ a < b
                                /\ log_collector.added[a] = hist'[t].result[i]
                                /\ log_collector.added[b] = hist'[t].result[j]

\* C39: the collector is a bounded FIFO: the buffer never holds more than
\* max_size entries, and get_logs returns the most recently added
\* min(n, max_size) of the n entries added since the last clear, oldest
\* first, also when add_log calls run concurrently.
C39_BoundedFifo == []C39_State /\ [][C39_Step]_vars

\* get_logs has returned max_size entries after an older one was dropped;
\* the entries were added by concurrent add_log calls in the reverse of the
\* order in which they were stamped.
C39_Witness ==
    \E t \in Tasks :
        /\ call[t].op = "get_logs" /\ hist[t].returned
        /\ Len(log_collector.added) > log_collector.max_size
        /\ hist[t].result = RecentLogs(log_collector)
        /\ Len(hist[t].result) = 2
        /\ hist[t].result[1].timestamp > hist[t].result[2].timestamp


\* The text after the first "window id " of a reference that has one.
AfterFirstMark(ref) ==
    SubSeq(ref, Unwrap(StrFind(ref, WindowIdPrefix)) + 10 + 1, Len(ref))

\* The longest run of decimal digits a string begins with.
LeadingDigits(str) ==
    LET stop == {i \in 1..Len(str) : str[i] \notin Digits}
    IN  IF stop = {} THEN str ELSE SubSeq(str, 1, Min(stop) - 1)

\* C40: extract_window_id(ref) returns Some(N) when the first "window id "
\* of ref is immediately followed by the decimal digits of N, whatever text
\* follows them, and None when ref has no "window id " or the first one is
\* not immediately followed by a digit.
C40_ExtractsFirstWindowId ==
    m_ret.op = "extract_window_id" =>
        LET ref == m_args.tab_reference
        IN  IF ~StrContains(ref, WindowIdPrefix) THEN m_ret.result = None
            ELSE LET run == LeadingDigits(AfterFirstMark(ref))
                 IN  IF run = <<>> THEN m_ret.result = None
                     ELSE /\ IsSome(m_ret.result)
                          /\ Unwrap(m_ret.result) = ParseDigits(run, 0)

=============================================================================
